---- MODULE Spec2Model ----
(***************************************************************************)
(* A model of the ROI data type of DVID (datatype/roi/roi.go) and of the   *)
(* part of the HTTP server that routes requests to it.                     *)
(*                                                                         *)
(* Spans are tuples <<z, y, x0, x1>> as in the Go type `tuple`; points and *)
(* block coordinates are <<x, y, z>> as dvid.Point3d / dvid.ChunkPoint3d.  *)
(* Go slices are 0-based; TLA+ sequences are 1-based, so spans[i] of the   *)
(* code is spans[i+1] here.                                                *)
(***************************************************************************)
EXTENDS Integers, Sequences, FiniteSets, TLC

\* ------------------------------------------------------------------ bounds
\* Block coordinates of the spans of the specifications that query one ROI
\* range over 0..MaxZc, 0..MaxYc and 0..MaxXc.
MaxZc == 3
MaxYc == 1
MaxXc == 2
\* Block coordinates of the other specifications range over 0..MaxCoord.
MaxCoord == 1
\* Longest POSTed span list and longest POSTed point list.
MaxSpans == 2
MaxPoints == 2
\* Largest batchsize of GET /partition.
MaxBatch == 3
\* Number of POST /roi requests in one behaviour.
MaxPosts == 2
\* Number of version nodes of the repo (the root and its descendants).
MaxVersions == 2
\* Number of POST /roi requests that run concurrently.
MaxProcs == 2
\* The source commits a batch every 10000 puts (roi.go:376).  The model keeps
\* the code's arithmetic and scales the number down, so that span lists of
\* length 0..MaxSpans reach the commit inside the loop, the final commit and
\* the exact multiple.
BATCH_SIZE == 2

\* --------------------------------------------------------- program constants
\* math.MaxInt32 and math.MinInt32.
MaxInt32 == 2147483647
MinInt32 == -MaxInt32 - 1
\* voxels.DefaultBlockSize, the BlockSize of an instance created without one.
DefaultBlockSize == 32
\* The number of values of two bytes.
TwoTo16 == 65536

\* d.BlockSize: every axis has the default size.
BlockSize == <<DefaultBlockSize, DefaultBlockSize, DefaultBlockSize>>

\* ------------------------------------------------------- integer arithmetic
\* a + b and a - b of two Go int32, wrapping around as the machine does.
\* (The checker's integers are 32 bits wide and do not wrap themselves.)
AddI32(a, b) ==
    IF a >= 0 /\ b > MaxInt32 - a THEN (a - MaxInt32 - 1) + (b - MaxInt32 - 1)
    ELSE IF a < 0 /\ b < MinInt32 - a THEN (a + MaxInt32 + 1) + (b + MaxInt32 + 1)
    ELSE a + b

SubI32(a, b) ==
    IF b = MinInt32 THEN AddI32(AddI32(a, MaxInt32), 1) ELSE AddI32(a, -b)

\* The four big-endian bytes of a 32-bit word, two bytes at a time: the high
\* half and the low half of the two's complement of n.  uint32(n) and n have
\* the same bytes.
WordBytes(n) == <<(n \div TwoTo16) % TwoTo16, n % TwoTo16>>

\* The int32 that has the bytes of the halves hi and lo.
Int32OfBytes(hi, lo) ==
    IF hi >= TwoTo16 \div 2 THEN (hi - TwoTo16) * TwoTo16 + lo ELSE hi * TwoTo16 + lo

Min2(a, b) == IF a < b THEN a ELSE b
Max2(a, b) == IF a > b THEN a ELSE b

Range(s) == {s[i] : i \in 1..Len(s)}

\* ------------------------------------------------------------- RLE index key
\* An indexRLE is [start |-> <<x, y, z>>, span |-> n]; span, a uint32, is
\* held as the int32 with the same bytes.

\* dvid.IndexZYX.Bytes(): Z, Y, X, each 4 bytes big-endian.
IndexZYXBytes(start) == WordBytes(start[3]) \o WordBytes(start[2]) \o WordBytes(start[1])

\* indexRLE.Bytes(): the start index followed by the span, big-endian uint32.
Bytes(i) == IndexZYXBytes(i.start) \o WordBytes(i.span)

\* indexRLE.IndexFromBytes(b): start is <<x, y, z>>.
IndexFromBytes(b) ==
    [start |-> <<Int32OfBytes(b[5], b[6]), Int32OfBytes(b[3], b[4]),
                 Int32OfBytes(b[1], b[2])>>,
     span |-> Int32OfBytes(b[7], b[8])]

\* Bytewise order of two encoded keys of equal length.
RECURSIVE KeyLessFrom(_, _, _)
KeyLessFrom(a, b, k) ==
    IF k > Len(a) THEN FALSE
    ELSE IF a[k] # b[k] THEN a[k] < b[k]
    ELSE KeyLessFrom(a, b, k + 1)

KeyLess(a, b) == KeyLessFrom(a, b, 1)

\* db.ProcessRange(ctx, minIndexRLE, maxIndexRLE, ...): the keys of the
\* context in strictly ascending byte order.
RECURSIVE ProcessRange(_)
ProcessRange(keys) ==
    IF keys = {} THEN <<>>
    ELSE LET first == CHOOSE k \in keys : \A o \in keys \ {k} : KeyLess(k, o)
         IN <<first>> \o ProcessRange(keys \ {first})

\* A callback of getROI that forgets the "- 1" of roi.go:322.
TupleOfIndexNoMinusOne(index) ==
    <<index.start[3], index.start[2], index.start[1], AddI32(index.start[1], index.span)>>

\* The body of the callback of getROI: one key to one tuple.
TupleOfIndex(index) ==
    LET z == index.start[3]
        y == index.start[2]
        x0 == index.start[1]
        x1 == SubI32(AddI32(x0, index.span), 1)
    IN <<z, y, x0, x1>>

\* getROI(ctx): all tuples of the version in key order.
getROI(keys) ==
    LET chunks == ProcessRange(keys)
    IN [i \in 1..Len(chunks) |-> TupleOfIndex(IndexFromBytes(chunks[i]))]

\* --------------------------------------------------------------- Data.Put
\* The index Put builds of one span (roi.go:385-388).
IndexOfSpan(span) ==
    [start |-> <<span[3], span[2], span[1]>>, span |-> AddI32(SubI32(span[4], span[3]), 1)]

\* Number of batch.Commit() calls of a Put of n spans in which none fails.
NumCommits(n) == (n \div BATCH_SIZE) + (IF n % BATCH_SIZE # 0 THEN 1 ELSE 0)

\* The loop of Put from span i (0-based) on.  st holds the keys of the
\* version, the open batch, d.MinZ, d.MaxZ, the number of commits done and the
\* error flag; the first nOK commits succeed and the next one fails.
RECURSIVE PutLoop(_, _, _, _)
PutLoop(spans, i, st, nOK) ==
    IF i >= Len(spans)
    THEN IF Len(spans) % BATCH_SIZE # 0
         THEN IF st.commits < nOK
              THEN [st EXCEPT !.keys = st.keys \cup st.batch, !.batch = {},
                              !.commits = st.commits + 1]
              ELSE [st EXCEPT !.err = TRUE]
         ELSE st
    ELSE LET span == spans[i + 1]
             minz == IF span[1] < st.MinZ THEN span[1] ELSE st.MinZ
             maxz == IF span[1] > st.MaxZ THEN span[1] ELSE st.MaxZ
             batch == st.batch \cup {Bytes(IndexOfSpan(span))}
             put == [st EXCEPT !.MinZ = minz, !.MaxZ = maxz, !.batch = batch]
         IN IF (i + 1) % BATCH_SIZE = 0
            THEN IF st.commits < nOK
                 THEN PutLoop(spans, i + 1,
                              [put EXCEPT !.keys = st.keys \cup batch, !.batch = {},
                                          !.commits = st.commits + 1], nOK)
                 ELSE [put EXCEPT !.err = TRUE]
            ELSE PutLoop(spans, i + 1, put, nOK)

\* Data.Put on a store that batches, with a body that parses: the old keys
\* are kept, the new ones are added batch by batch.
Put(keys, minZ, maxZ, spans, nOK) ==
    PutLoop(spans, 0,
            [keys |-> keys, batch |-> {}, MinZ |-> minZ, MaxZ |-> maxZ,
             commits |-> 0, err |-> FALSE], nOK)

\* --------------------------------------------------- tuple.less / includes
\* tuple.less comparing the span's x0, where the code compares its x1.
lessX0(t, block) ==
    IF t[1] > block[3] THEN FALSE
    ELSE IF t[2] > block[2] THEN FALSE
    ELSE IF t[3] > block[1] THEN FALSE
    ELSE TRUE

\* tuple.less(block): the three early returns of roi.go:276-287.
less(t, block) ==
    IF t[1] > block[3] THEN FALSE
    ELSE IF t[2] > block[2] THEN FALSE
    ELSE IF t[4] > block[1] THEN FALSE
    ELSE TRUE

\* tuple.includes(block), roi.go:289-300.
includes(t, block) ==
    IF t[1] # block[3] THEN FALSE
    ELSE IF t[2] # block[2] THEN FALSE
    ELSE IF t[3] > block[1] \/ t[4] < block[1] THEN FALSE
    ELSE TRUE

\* dvid.Point3d.Chunk(size): the block of a voxel point, componentwise
\* division (the points of the model are not negative).
Chunk(pt, size) == <<pt[1] \div size[1], pt[2] \div size[2], pt[3] \div size[3]>>

\* The order of dvid.ByZYX: z, then y, then x.
LessZYX(p, q) ==
    \/ p[3] < q[3]
    \/ p[3] = q[3] /\ p[2] < q[2]
    \/ p[3] = q[3] /\ p[2] = q[2] /\ p[1] < q[1]

\* sort.Sort(dvid.ByZYX(pts)): the points in ascending (z, y, x) order.
\* Points that compare equal are equal, so the result is unique.
RECURSIVE SortByZYX(_)
SortByZYX(pts) ==
    IF pts = <<>> THEN <<>>
    ELSE LET k == CHOOSE i \in 1..Len(pts) :
                      \A j \in 1..Len(pts) : ~LessZYX(pts[j], pts[i])
             rest == [j \in 1..(Len(pts) - 1) |-> IF j < k THEN pts[j] ELSE pts[j + 1]]
         IN <<pts[k]>> \o SortByZYX(rest)

\* Data.seekSpan(pt, spans, curSpanI): <<new span index, included>>.  The
\* index is 0-based as in the code.
RECURSIVE seekLoop(_, _, _)
seekLoop(chunkPt, spans, curSpanI) ==
    LET curSpan == spans[curSpanI + 1]
    IN IF less(curSpan, chunkPt)
       THEN IF curSpanI + 1 >= Len(spans)
            THEN <<curSpanI + 1, FALSE>>
            ELSE seekLoop(chunkPt, spans, curSpanI + 1)
       ELSE IF includes(curSpan, chunkPt)
            THEN <<curSpanI, TRUE>>
            ELSE <<curSpanI, FALSE>>

seekSpan(pt, spans, curSpanI) ==
    IF curSpanI >= Len(spans)
    THEN <<curSpanI, FALSE>>
    ELSE seekLoop(Chunk(pt, BlockSize), spans, curSpanI)

\* The loop of PointQuery over the sorted points from point i (0-based) on.
RECURSIVE queryLoop(_, _, _, _)
queryLoop(pts, spans, i, curSpan) ==
    IF i >= Len(pts) THEN <<>>
    ELSE LET r == seekSpan(pts[i + 1], spans, curSpan)
         IN <<r[2]>> \o queryLoop(pts, spans, i + 1, r[1])

\* Data.PointQuery: pts is the list the loop runs over (the POSTed list after
\* sort.Sort), inclusions the list that is returned.
PointQuery(keys, posted) ==
    LET pts == SortByZYX(posted)
        spans == getROI(keys)
    IN [pts |-> pts, inclusions |-> queryLoop(pts, spans, 0, 0)]

\* ------------------------------------------------------------- partitioning
\* dvid.ChunkPoint3d.MinPoint(size) and MaxPoint(size): the first and the
\* last voxel of a block.
MinPoint(block, size) == <<block[1] * size[1], block[2] * size[2], block[3] * size[3]>>
MaxPoint(block, size) ==
    <<(block[1] + 1) * size[1] - 1, (block[2] + 1) * size[2] - 1,
      (block[3] + 1) * size[3] - 1>>

\* Data.newLayer(z0, z1).
newLayer(z0, z1) ==
    [activeBlocks |-> <<>>, minX |-> MaxInt32, maxX |-> MinInt32,
     minY |-> MaxInt32, maxY |-> MinInt32, minZ |-> z0, maxZ |-> z1]

\* layerT.extend(rle).
extend(layer, rle) ==
    LET y == rle.start[2]
        x0 == rle.start[1]
        x1 == SubI32(AddI32(x0, rle.span), 1)
    IN [layer EXCEPT !.activeBlocks = Append(layer.activeBlocks, rle),
                     !.minX = IF layer.minX > x0 THEN x0 ELSE layer.minX,
                     !.maxX = IF layer.maxX < x1 THEN x1 ELSE layer.maxX,
                     !.minY = IF layer.minY > y THEN y ELSE layer.minY,
                     !.maxY = IF layer.maxY < y THEN y ELSE layer.maxY]

\* getYRange(blocks), the loop from block k (1-based) on.
RECURSIVE getYRangeFrom(_, _, _)
getYRangeFrom(blocks, k, acc) ==
    IF k > Len(blocks) THEN acc
    ELSE LET y == blocks[k].start[2]
         IN getYRangeFrom(blocks, k + 1,
                [minY |-> IF y < acc.minY THEN y ELSE acc.minY,
                 maxY |-> IF y > acc.maxY THEN y ELSE acc.maxY,
                 found |-> TRUE])

getYRange(blocks) ==
    getYRangeFrom(blocks, 1, [minY |-> MaxInt32, maxY |-> MinInt32, found |-> FALSE])

\* getXRange(blocks, minY, maxY), the loop from block k (1-based) on.
RECURSIVE getXRangeFrom(_, _, _, _, _)
getXRangeFrom(blocks, minY, maxY, k, acc) ==
    IF k > Len(blocks) THEN acc
    ELSE LET rle == blocks[k]
             x1 == SubI32(AddI32(rle.start[1], rle.span), 1)
         IN IF rle.start[2] >= minY /\ rle.start[2] <= maxY
            THEN getXRangeFrom(blocks, minY, maxY, k + 1,
                    [minX |-> IF rle.start[1] < acc.minX THEN rle.start[1] ELSE acc.minX,
                     maxX |-> IF x1 > acc.maxX THEN x1 ELSE acc.maxX,
                     actives |-> Append(acc.actives, rle)])
            ELSE getXRangeFrom(blocks, minY, maxY, k + 1, acc)

getXRange(blocks, minY, maxY) ==
    getXRangeFrom(blocks, minY, maxY, 1,
                  [minX |-> MaxInt32, maxX |-> MinInt32, actives |-> <<>>])

\* findActives(blocks, minX, maxX), the loop from block k (1-based) on.
RECURSIVE findActivesFrom(_, _, _, _)
findActivesFrom(blocks, minX, maxX, k) ==
    IF k > Len(blocks) THEN 0
    ELSE LET spanBeg == blocks[k].start[1]
             spanEnd == SubI32(AddI32(spanBeg, blocks[k].span), 1)
             rest == findActivesFrom(blocks, minX, maxX, k + 1)
         IN IF spanBeg > maxX THEN rest
            ELSE IF spanEnd < minX THEN rest
            ELSE (Min2(maxX, spanEnd) - Max2(minX, spanBeg) + 1) + rest

findActives(blocks, minX, maxX) == findActivesFrom(blocks, minX, maxX, 1)

\* totalBlocks(minCorner, maxCorner).
totalBlocks(minCorner, maxCorner) ==
    (maxCorner[1] - minCorner[1] + 1) * (maxCorner[2] - minCorner[2] + 1)
        * (maxCorner[3] - minCorner[3] + 1)

\* The body of the inner loop of addSubvolumes (roi.go:632-650) for a column
\* with the corners, numTotal and numActive computed.  Indexing
\* Subvolumes[-1] panics; the panic is recorded and ends the request.
\* columns is the history of the loop: for each column, in order, the index
\* lastI of the subvolume it became or was merged into, and its minCorner
\* (begX, begY, layer.minZ), which tells its row and its layer.
addCounted(sv, minCorner, maxCorner, numTotal, numActive, mergeThreshold) ==
    IF numActive < mergeThreshold
    THEN IF Len(sv.Subvolumes) - 1 < 0
         THEN [sv EXCEPT !.panic = TRUE]
         ELSE [sv EXCEPT
                 !.Subvolumes[Len(sv.Subvolumes)].MaxCorner = MinPoint(maxCorner, BlockSize),
                 !.Subvolumes[Len(sv.Subvolumes)].TotalBlocks = @ + numTotal,
                 !.Subvolumes[Len(sv.Subvolumes)].ActiveBlocks = @ + numActive,
                 !.NumActiveBlocks = @ + numActive,
                 !.NumTotalBlocks = @ + numTotal,
                 !.columns = Append(@, [lastI |-> Len(sv.Subvolumes), merged |-> TRUE,
                                        minCorner |-> minCorner])]
    ELSE [sv EXCEPT
            !.Subvolumes = Append(@, [MinCorner |-> MinPoint(minCorner, BlockSize),
                                      MaxCorner |-> MaxPoint(maxCorner, BlockSize),
                                      TotalBlocks |-> numTotal,
                                      ActiveBlocks |-> numActive]),
            !.NumActiveBlocks = @ + numActive,
            !.NumTotalBlocks = @ + numTotal,
            !.columns = Append(@, [lastI |-> Len(sv.Subvolumes) + 1, merged |-> FALSE,
                                   minCorner |-> minCorner])]

\* roi.go:630-631: numTotal and numActive of the column between the corners.
addCorners(actives, sv, minCorner, maxCorner, mergeThreshold) ==
    addCounted(sv, minCorner, maxCorner, totalBlocks(minCorner, maxCorner),
               findActives(actives, minCorner[1], maxCorner[1]), mergeThreshold)

\* roi.go:628-629: the corners of the column begX..endX of the row begY..endY.
addColumn(layer, actives, sv, begX, endX, begY, endY, mergeThreshold) ==
    addCorners(actives, sv, <<begX, begY, layer.minZ>>, <<endX, endY, layer.maxZ>>,
               mergeThreshold)

\* The inner loop of addSubvolumes: the columns of one row from begX on.
RECURSIVE columnLoop(_, _, _, _, _, _, _, _, _, _)
columnLoop(layer, actives, sv, batchsize, mergeThreshold, begX, maxX, xleft, begY, endY) ==
    IF sv.panic \/ begX > maxX THEN sv
    ELSE columnLoop(layer, actives,
                    addColumn(layer, actives, sv, begX,
                              begX + batchsize - 1 + (IF xleft > 0 THEN 1 ELSE 0),
                              begY, endY, mergeThreshold),
                    batchsize, mergeThreshold,
                    begX + batchsize - 1 + (IF xleft > 0 THEN 1 ELSE 0) + 1, maxX,
                    IF xleft > 0 THEN xleft - 1 ELSE xleft, begY, endY)

\* roi.go:613-653: the subvolumes of the row begY..endY, whose X range and
\* spans are xr.
addRow(layer, sv, batchsize, mergeThreshold, begY, endY, xr) ==
    IF Len(xr.actives) > 0
    THEN columnLoop(layer, xr.actives, sv, batchsize, mergeThreshold, xr.minX, xr.maxX,
                    (xr.maxX - xr.minX + 1) % batchsize, begY, endY)
    ELSE sv

\* The outer loop of addSubvolumes: the rows of the layer from begY on.
RECURSIVE rowLoop(_, _, _, _, _, _, _)
rowLoop(layer, sv, batchsize, mergeThreshold, begY, maxY, yleft) ==
    IF sv.panic \/ begY > maxY THEN sv
    ELSE rowLoop(layer,
                 addRow(layer, sv, batchsize, mergeThreshold, begY,
                        begY + batchsize - 1 + (IF yleft > 0 THEN 1 ELSE 0),
                        getXRange(layer.activeBlocks, begY,
                                  begY + batchsize - 1 + (IF yleft > 0 THEN 1 ELSE 0))),
                 batchsize, mergeThreshold,
                 begY + batchsize - 1 + (IF yleft > 0 THEN 1 ELSE 0) + 1, maxY,
                 IF yleft > 0 THEN yleft - 1 ELSE yleft)

\* roi.go:596-655: the rows of a layer whose Y range is yr.
addRows(layer, sv, batchsize, yr) ==
    IF ~yr.found THEN sv
    ELSE rowLoop(layer, sv, batchsize, (batchsize * batchsize * batchsize) \div 10,
                 yr.minY, yr.maxY, (yr.maxY - yr.minY + 1) % batchsize)

\* Data.addSubvolumes(layer, subvolumes, batchsize).
addSubvolumes(layer, sv, batchsize) ==
    addRows(layer, sv, batchsize, getYRange(layer.activeBlocks))

\* roi.go:689-703: a chunk with z beyond the layer ends the layer and starts
\* the next one.  st holds layerBegZ, layerEndZ, zleft, the current layer and
\* the subvolumes.
nextLayer(st, z, batchsize) ==
    IF z > st.layerEndZ
    THEN [layerBegZ |-> AddI32(st.layerEndZ, 1),
          layerEndZ |-> AddI32(AddI32(st.layerEndZ, batchsize), IF st.zleft > 0 THEN 1 ELSE 0),
          zleft |-> IF st.zleft > 0 THEN st.zleft - 1 ELSE st.zleft,
          layer |-> newLayer(AddI32(st.layerEndZ, 1),
                             AddI32(AddI32(st.layerEndZ, batchsize),
                                    IF st.zleft > 0 THEN 1 ELSE 0)),
          sv |-> addSubvolumes(st.layer, st.sv, batchsize)]
    ELSE st

\* roi.go:706: the chunk is added to the layer, unless the request has ended.
extendLayer(st, index) ==
    IF st.sv.panic THEN st ELSE [st EXCEPT !.layer = extend(st.layer, index)]

\* The callback of Partition's range scan (roi.go:676-707) for one chunk.
scanChunk(st, index, batchsize) ==
    extendLayer(nextLayer(st, index.start[3], batchsize), index)

\* The range scan of Partition over the chunks from k (1-based) on.
RECURSIVE layerLoop(_, _, _, _)
layerLoop(chunks, k, st, batchsize) ==
    IF st.sv.panic \/ k > Len(chunks) THEN st
    ELSE layerLoop(chunks, k + 1, scanChunk(st, IndexFromBytes(chunks[k]), batchsize),
                   batchsize)

\* roi.go:709-715: the last layer and NumSubvolumes.
lastLayer(st, batchsize) ==
    IF ~st.sv.panic /\ Len(st.layer.activeBlocks) > 0
    THEN addSubvolumes(st.layer, st.sv, batchsize)
    ELSE st.sv

countSubvolumes(sv) == [sv EXCEPT !.NumSubvolumes = Len(sv.Subvolumes)]

\* roi.go:660-670: the first layer.
firstLayer(minZ, maxZ, batchsize) ==
    [layerBegZ |-> minZ,
     layerEndZ |-> SubI32(AddI32(minZ, batchsize), 1),
     zleft |-> AddI32(SubI32(maxZ, minZ), 1) % batchsize,
     layer |-> newLayer(minZ, SubI32(AddI32(minZ, batchsize), 1)),
     sv |-> [NumTotalBlocks |-> 0, NumActiveBlocks |-> 0, NumSubvolumes |-> 0,
             Subvolumes |-> <<>>, panic |-> FALSE, columns |-> <<>>]]

\* Data.Partition(ctx, batchsize) for batchsize >= 1: the subvolumesT that is
\* encoded, with panic = TRUE when the request ended in a run-time panic.
Partition(keys, minZ, maxZ, batchsize) ==
    countSubvolumes(lastLayer(layerLoop(ProcessRange(keys), 1,
                                        firstLayer(minZ, maxZ, batchsize), batchsize),
                              batchsize))

\* ------------------------------------------------------------------- state
VARIABLES
    store,      \* version id -> the encoded RLE keys stored under that version
    MinZ,       \* d.Properties.MinZ, shared by all versions of the instance
    MaxZ,       \* d.Properties.MaxZ
    versions,   \* the version nodes of the repo
    locked,     \* version id -> whether the node is locked
    posts,      \* version id -> the POST /roi requests served, oldest first
    resp,       \* the last request the instance served and its response
    mutex,      \* version id -> the request holding ctx.Mutex(), 0 when free
    put,        \* request -> the position and the locals of its Data.Put
    readonly,   \* the read-only flag of the server process
    uuids,      \* version id -> the UUID of the node, <<>> while there is none
    repoOf,     \* version id -> the root version of the node's repo, 0 if none
    datas,      \* the roots of the repos that hold the data instance "roi"
    http,       \* the last request the web server served and its response
    manager,    \* the storage manager: its tiers and what its engines hold
    backend,    \* the result of the last LoadConfig
    call        \* the arguments and the result of a call of a function

\* The state of the ROI instance and of the version nodes, and the state of
\* the server around them.
roiVars == <<store, MinZ, MaxZ, versions, locked, posts, resp, mutex, put>>
serverVars == <<readonly, uuids, repoOf, datas, http, manager, backend, call>>

vars == <<store, MinZ, MaxZ, versions, locked, posts, resp, mutex, put,
          readonly, uuids, repoOf, datas, http, manager, backend, call>>

\* The requests that can be in Data.Put at the same time.
Procs == 1..MaxProcs

IdlePut ==
    [pc |-> "idle", v |-> 0, spans |-> <<>>, i |-> 0, batch |-> {}, err |-> FALSE,
     saved |-> FALSE]

Versions == 1..MaxVersions

EmptySubvolumes ==
    [NumTotalBlocks |-> 0, NumActiveBlocks |-> 0, NumSubvolumes |-> 0,
     Subvolumes |-> <<>>, panic |-> FALSE, columns |-> <<>>]

\* A response: what was asked (op, v and the request's input) and what was
\* answered (status and the body of that operation); scanErr tells that the
\* range scan of the request returned an error, logged that the request
\* wrote that error to the log.
NoResp ==
    [op |-> "none", v |-> 0, status |-> 0, spans |-> <<>>, tuples |-> <<>>,
     posted |-> <<>>, pts |-> <<>>, inclusions |-> <<>>, batchsize |-> 0,
     sv |-> EmptySubvolumes, scanErr |-> FALSE, logged |-> FALSE]

\* A request to the web server and its response: the route pattern that
\* matched and the method, the status, the middleware and the handler that
\* ran, in order, and whether uuid, version id and repo were attached to the
\* request when the handler was called; config is the body that a POST
\* /api/repo/:uuid/instance carried, with "" for a missing field, and
\* afterError what the handler went on to call after it had sent an error.
NoConfig == [typename |-> "", dataname |-> ""]

NoRequest ==
    [route |-> "none", method |-> "none", uuid |-> <<>>, dataname |-> "",
     status |-> 0, ran |-> <<>>, attached |-> FALSE,
     config |-> NoConfig, afterError |-> <<>>]

\* The storage engines that the process can open, and the instance ids of
\* the data that is stored in them.
MaxEngines == 2
MaxInstances == 2
Engines == 1..MaxEngines
InstanceIds == 1..MaxInstances

\* No DeleteDataInstance has run: data is the instance that was to be
\* deleted, calls the engines whose DeleteAll was called, in order, err
\* whether an error was returned.
NoDelete == [data |-> 0, calls |-> <<>>, err |-> FALSE]

\* The storage manager before storage.Initialize (part_001:443-459): no
\* tier is set.  keys is, for each engine, the instance ids that its keys
\* carry; last is the last DeleteDataInstance, if nothing was stored and no
\* tier was set since.
NoManager ==
    [setup |-> FALSE, metadata |-> 0, mutable |-> 0, immutable |-> 0,
     keys |-> [e \in Engines |-> {}], last |-> NoDelete]

\* No LoadConfig has run.
NoBackend == [loaded |-> FALSE]

\* No function is being called.
NoCall == [fn |-> "none", args |-> <<>>, done |-> FALSE, result |-> FALSE]

\* ------------------------------------------------------------------ inputs
TuplesOver(zs, ys, xs) == {t \in zs \X ys \X xs \X xs : t[3] <= t[4]}

ListsOver(S, n) == UNION {[1..k -> S] : k \in 0..n}

\* (z, y, x0, x1) order of two tuples.
RECURSIVE TupleLessFrom(_, _, _)
TupleLessFrom(a, b, k) ==
    IF k > Len(a) THEN FALSE
    ELSE IF a[k] # b[k] THEN a[k] < b[k]
    ELSE TupleLessFrom(a, b, k + 1)

TupleLess(a, b) == TupleLessFrom(a, b, 1)

\* The lists over S of at most n tuples that ascend strictly.
AscendingListsOver(S, n) ==
    {s \in ListsOver(S, n) : \A i \in 1..(Len(s) - 1) : TupleLess(s[i], s[i + 1])}

\* --------------------------------------------------------------- requests
\* NewDataService (roi.go:186) and a new repo with its root version.
Started ==
    /\ store = [v \in Versions |-> {}]
    /\ MinZ = MaxInt32
    /\ MaxZ = MinInt32
    /\ versions = {1}
    /\ locked = [v \in Versions |-> FALSE]
    /\ posts = [v \in Versions |-> <<>>]
    /\ resp = NoResp
    /\ mutex = [v \in Versions |-> 0]
    /\ put = [p \in Procs |-> IdlePut]
    /\ readonly = FALSE
    /\ uuids = [v \in Versions |-> <<>>]
    /\ repoOf = [v \in Versions |-> 0]
    /\ datas = {1}
    /\ http = NoRequest
    /\ manager = NoManager
    /\ backend = NoBackend

\* The state after construction, with no function being called.
Init == Started /\ call = NoCall

\* The number of POST /roi requests served so far.
RECURSIVE NumPostsUpTo(_)
NumPostsUpTo(v) == IF v = 0 THEN 0 ELSE Len(posts[v]) + NumPostsUpTo(v - 1)

NumPosts == NumPostsUpTo(MaxVersions)

\* POST <api URL>/node/<UUID>/<data name>/roi (ServeHTTP, roi.go:804-815, and
\* instanceSelector, which resolves the version and looks at no lock): Put
\* runs on the version; the first nOK commits succeed.
Post(v, spans, nOK) ==
    /\ v \in versions
    /\ NumPosts < MaxPosts
    /\ nOK \in 0..NumCommits(Len(spans))
    /\ LET r == Put(store[v], MinZ, MaxZ, spans, nOK)
       IN /\ store' = [store EXCEPT ![v] = r.keys]
          /\ MinZ' = r.MinZ
          /\ MaxZ' = r.MaxZ
          /\ posts' = [posts EXCEPT ![v] = Append(@, [spans |-> spans, ok |-> ~r.err])]
          /\ resp' = [NoResp EXCEPT !.op = "POST roi", !.v = v, !.spans = spans,
                                    !.status = IF r.err THEN 400 ELSE 200]
    /\ UNCHANGED <<versions, locked, mutex, put, serverVars>>

\* A request that reads: it changes nothing but the response.  A read after
\* a read reaches no state that the second read alone does not reach, so the
\* reads are taken when the last request was none.
IsRead(op) ==
    op \in {"GET roi", "POST ptquery", "GET partition", "GET partition, no batchsize"}

\* GET <api URL>/node/<UUID>/<data name>/roi (ServeHTTP, roi.go:795-803).
Get(v) ==
    /\ v \in versions
    /\ ~IsRead(resp.op)
    /\ resp' = [NoResp EXCEPT !.op = "GET roi", !.v = v, !.status = 200,
                              !.tuples = getROI(store[v])]
    /\ UNCHANGED <<store, MinZ, MaxZ, versions, locked, posts, mutex, put, serverVars>>

\* POST /api/repo/{uuid}/lock: the node is locked from now on.
Lock(v) ==
    /\ v \in versions
    /\ locked' = [locked EXCEPT ![v] = TRUE]
    /\ UNCHANGED <<store, MinZ, MaxZ, versions, posts, resp, mutex, put, serverVars>>

\* POST /api/repo/{uuid}/branch: a locked node gets a child, an open node
\* answers 400.
Branch(v) ==
    /\ v \in versions
    /\ Cardinality(versions) < MaxVersions
    /\ versions' = IF locked[v] THEN versions \cup {Cardinality(versions) + 1} ELSE versions
    /\ UNCHANGED <<store, MinZ, MaxZ, locked, posts, resp, mutex, put, serverVars>>

\* POST <api URL>/node/<UUID>/<data name>/ptquery (ServeHTTP, roi.go:822-835).
Ptquery(v, posted) ==
    /\ v \in versions
    /\ ~IsRead(resp.op)
    /\ LET r == PointQuery(store[v], posted)
       IN resp' = [NoResp EXCEPT !.op = "POST ptquery", !.v = v, !.status = 200,
                                 !.posted = posted, !.pts = r.pts,
                                 !.inclusions = r.inclusions]
    /\ UNCHANGED <<store, MinZ, MaxZ, versions, locked, posts, mutex, put, serverVars>>

\* GET <api URL>/node/<UUID>/<data name>/partition?batchsize=B (ServeHTTP,
\* roi.go:837-859).  A panic of the handler is answered by the recover
\* middleware with status 500 and no subvolumes.
GetPartition(v, batchsize) ==
    /\ v \in versions
    /\ ~IsRead(resp.op)
    /\ LET r == Partition(store[v], MinZ, MaxZ, batchsize)
       IN resp' = [NoResp EXCEPT !.op = "GET partition", !.v = v,
                                 !.status = IF r.panic THEN 500 ELSE 200,
                                 !.batchsize = batchsize, !.sv = r]
    /\ UNCHANGED <<store, MinZ, MaxZ, versions, locked, posts, mutex, put, serverVars>>

\* ------------------------------------------------- Data.Put, step by step
\* POST /roi requests run on their own goroutines.  Each step below is one
\* access of Data.Put to what the requests share: the mutex of the context,
\* d.MinZ, d.MaxZ and the store.

\* The POST /roi requests begun so far.
NumBegun == NumPosts + Cardinality({p \in Procs : put[p].pc # "idle"})

\* roi.go:344-360: the store batches and the body parses.
PutBegin(p, v, spans) ==
    /\ put[p].pc = "idle"
    /\ v \in versions
    /\ NumBegun < MaxPosts
    /\ put' = [put EXCEPT ![p] = [IdlePut EXCEPT !.pc = "lock", !.v = v, !.spans = spans]]
    /\ UNCHANGED <<store, MinZ, MaxZ, versions, locked, posts, resp, mutex, serverVars>>

\* The pc of a Put that has handled spans[0..i-1].
LoopHead(spans, i) == IF i >= Len(spans) THEN "final" ELSE "chkMin"

\* A Put that goes on without waiting for the mutex of its context.
PutLockNoMutex(p) ==
    /\ put[p].pc = "lock"
    /\ mutex' = [mutex EXCEPT ![put[p].v] = p]
    /\ put' = [put EXCEPT ![p].pc = LoopHead(put[p].spans, 0)]
    /\ UNCHANGED <<store, MinZ, MaxZ, versions, locked, posts, resp, serverVars>>

\* roi.go:363-377: putMutex.Lock() and the first batch.
PutLock(p) ==
    /\ put[p].pc = "lock"
    /\ mutex[put[p].v] = 0
    /\ mutex' = [mutex EXCEPT ![put[p].v] = p]
    /\ put' = [put EXCEPT ![p].pc = LoopHead(put[p].spans, 0)]
    /\ UNCHANGED <<store, MinZ, MaxZ, versions, locked, posts, resp, serverVars>>

\* roi.go:379: the read of d.MinZ.
PutChkMin(p) ==
    /\ put[p].pc = "chkMin"
    /\ put' = [put EXCEPT ![p].pc =
                  IF put[p].spans[put[p].i + 1][1] < MinZ THEN "setMin" ELSE "chkMax"]
    /\ UNCHANGED <<store, MinZ, MaxZ, versions, locked, posts, resp, mutex, serverVars>>

\* roi.go:380: the write of d.MinZ.
PutSetMin(p) ==
    /\ put[p].pc = "setMin"
    /\ MinZ' = put[p].spans[put[p].i + 1][1]
    /\ put' = [put EXCEPT ![p].pc = "chkMax"]
    /\ UNCHANGED <<store, MaxZ, versions, locked, posts, resp, mutex, serverVars>>

\* roi.go:382: the read of d.MaxZ.
PutChkMax(p) ==
    /\ put[p].pc = "chkMax"
    /\ put' = [put EXCEPT ![p].pc =
                  IF put[p].spans[put[p].i + 1][1] > MaxZ THEN "setMax" ELSE "batch"]
    /\ UNCHANGED <<store, MinZ, MaxZ, versions, locked, posts, resp, mutex, serverVars>>

\* roi.go:383: the write of d.MaxZ.
PutSetMax(p) ==
    /\ put[p].pc = "setMax"
    /\ MaxZ' = put[p].spans[put[p].i + 1][1]
    /\ put' = [put EXCEPT ![p].pc = "batch"]
    /\ UNCHANGED <<store, MinZ, versions, locked, posts, resp, mutex, serverVars>>

\* roi.go:385-395: batch.Put and, every BATCH_SIZE spans, batch.Commit, which
\* succeeds or fails.
PutBatch(p, commitOK) ==
    /\ put[p].pc = "batch"
    /\ LET i == put[p].i
           batch == put[p].batch \cup {Bytes(IndexOfSpan(put[p].spans[i + 1]))}
       IN IF (i + 1) % BATCH_SIZE = 0
          THEN IF commitOK
               THEN /\ store' = [store EXCEPT ![put[p].v] = @ \cup batch]
                    /\ put' = [put EXCEPT ![p].batch = {}, ![p].i = i + 1,
                                          ![p].pc = LoopHead(put[p].spans, i + 1)]
               ELSE /\ store' = store
                    /\ put' = [put EXCEPT ![p].batch = batch, ![p].err = TRUE,
                                          ![p].pc = "exit"]
          ELSE /\ commitOK
               /\ store' = store
               /\ put' = [put EXCEPT ![p].batch = batch, ![p].i = i + 1,
                                     ![p].pc = LoopHead(put[p].spans, i + 1)]
    /\ UNCHANGED <<MinZ, MaxZ, versions, locked, posts, resp, mutex, serverVars>>

\* roi.go:397-402: the commit of the last batch, which succeeds or fails.
PutFinal(p, commitOK) ==
    /\ put[p].pc = "final"
    /\ IF Len(put[p].spans) % BATCH_SIZE # 0
       THEN IF commitOK
            THEN /\ store' = [store EXCEPT ![put[p].v] = @ \cup put[p].batch]
                 /\ put' = [put EXCEPT ![p].batch = {}, ![p].pc = "exit"]
            ELSE /\ store' = store
                 /\ put' = [put EXCEPT ![p].err = TRUE, ![p].pc = "exit"]
       ELSE /\ commitOK
            /\ store' = store
            /\ put' = [put EXCEPT ![p].pc = "exit"]
    /\ UNCHANGED <<MinZ, MaxZ, versions, locked, posts, resp, mutex, serverVars>>

\* roi.go:367-373 and 810-815: the deferred save of the repo and
\* putMutex.Unlock(), then the response of ServeHTTP.
PutExit(p) ==
    /\ put[p].pc = "exit"
    /\ mutex' = [mutex EXCEPT ![put[p].v] = 0]
    /\ posts' = [posts EXCEPT ![put[p].v] =
                    Append(@, [spans |-> put[p].spans, ok |-> ~put[p].err])]
    /\ resp' = [NoResp EXCEPT !.op = "POST roi", !.v = put[p].v, !.spans = put[p].spans,
                              !.status = IF put[p].err THEN 400 ELSE 200]
    /\ put' = [put EXCEPT ![p] = IdlePut]
    /\ UNCHANGED <<store, MinZ, MaxZ, versions, locked, serverVars>>

\* POST /roi of one of the span lists to the root version of a new instance,
\* all commits succeeding.
FirstPost(lists) ==
    /\ NumPosts = 0
    /\ \E spans \in lists : Post(1, spans, NumCommits(Len(spans)))

\* ------------------------------------------------------------ specifications
\* The repo with its versions and the ROI instance, one request at a time.
\* Span lists in any order, with repeated, touching and overlapping spans.
RepoSpanLists == ListsOver(TuplesOver(0..MaxCoord, {0}, 0..MaxCoord), MaxSpans)

Next ==
    \/ \E v \in Versions, spans \in RepoSpanLists, nOK \in 0..MaxSpans : Post(v, spans, nOK)
    \/ \E v \in Versions : Get(v)
    \/ \E v \in Versions : Lock(v)
    \/ \E v \in Versions : Branch(v)

Spec == Init /\ [][Next]_vars

\* One POST /roi to the empty ROI of the root version, then GET /roi.  The
\* spans lie in the rows 0 and MaxCoord of the layers 0..MaxCoord.
RoundTripSpanLists ==
    AscendingListsOver(TuplesOver(0..MaxCoord, {0, MaxCoord}, 0..(MaxCoord + 1)), MaxSpans)

NextRoundTrip ==
    \/ FirstPost(RoundTripSpanLists)
    \/ Get(1)

SpecRoundTrip == Init /\ [][NextRoundTrip]_vars

\* One POST /roi to the empty ROI, then point queries.  The voxel points are
\* the first and the last voxel of the blocks.
QuerySpanLists ==
    AscendingListsOver(TuplesOver(0..MaxCoord, 0..MaxCoord, 0..MaxCoord), MaxSpans)

QueryPoints ==
    {<<b[1] * BlockSize[1] + o * (BlockSize[1] - 1),
       b[2] * BlockSize[2] + o * (BlockSize[2] - 1),
       b[3] * BlockSize[3] + o * (BlockSize[3] - 1)>> :
        b \in (0..(MaxCoord + 1)) \X (0..MaxCoord) \X (0..MaxCoord), o \in {0, 1}}

NextQuery ==
    \/ FirstPost(QuerySpanLists)
    \/ \E posted \in ListsOver(QueryPoints, MaxPoints) : Ptquery(1, posted)

SpecQuery == Init /\ [][NextQuery]_vars

\* One POST /roi to the empty ROI, then partitions.
PartitionSpanLists == AscendingListsOver(TuplesOver(0..MaxZc, 0..MaxYc, 0..MaxXc), MaxSpans)

NextPartition ==
    \/ FirstPost(PartitionSpanLists)
    \/ \E batchsize \in 1..MaxBatch : GetPartition(1, batchsize)

SpecPartition == Init /\ [][NextPartition]_vars

\* POST /roi requests that run concurrently on the versions of the instance.
ConcSpanLists == ListsOver(TuplesOver(0..MaxCoord, {0}, {0}), MaxSpans)

NextConc ==
    \/ \E p \in Procs, v \in Versions, spans \in ConcSpanLists : PutBegin(p, v, spans)
    \/ \E p \in Procs : PutLock(p)
    \/ \E p \in Procs : PutChkMin(p)
    \/ \E p \in Procs : PutSetMin(p)
    \/ \E p \in Procs : PutChkMax(p)
    \/ \E p \in Procs : PutSetMax(p)
    \/ \E p \in Procs, commitOK \in BOOLEAN : PutBatch(p, commitOK)
    \/ \E p \in Procs, commitOK \in BOOLEAN : PutFinal(p, commitOK)
    \/ \E p \in Procs : PutExit(p)
    \/ \E v \in Versions : Lock(v)
    \/ \E v \in Versions : Branch(v)

SpecConc == Init /\ [][NextConc]_vars

\* POST /roi requests that run concurrently and put the same block
\* MaxSpans - 1 or MaxSpans times: what matters is where each request stands
\* in Data.Put.  The versions are locked and branched before the first
\* POST /roi begins.
SerialSpanLists == {[i \in 1..k |-> <<0, 0, 0, 0>>] : k \in (MaxSpans - 1)..MaxSpans}

NextSerial ==
    \/ \E p \in Procs, v \in Versions, spans \in SerialSpanLists : PutBegin(p, v, spans)
    \/ \E p \in Procs : PutLock(p)
    \/ \E p \in Procs : PutChkMin(p)
    \/ \E p \in Procs : PutSetMin(p)
    \/ \E p \in Procs : PutChkMax(p)
    \/ \E p \in Procs : PutSetMax(p)
    \/ \E p \in Procs, commitOK \in BOOLEAN : PutBatch(p, commitOK)
    \/ \E p \in Procs, commitOK \in BOOLEAN : PutFinal(p, commitOK)
    \/ \E p \in Procs : PutExit(p)
    \/ \E v \in Versions : NumBegun = 0 /\ Lock(v)
    \/ \E v \in Versions : NumBegun = 0 /\ Branch(v)

SpecSerial == Init /\ [][NextSerial]_vars

\* ------------------------------------------------------------------ claims
\* The spans stored under a version, and the block of a voxel point.
StoredSpans(v) == {TupleOfIndex(IndexFromBytes(k)) : k \in store[v]}

BlockInSomeSpan(block, spans) ==
    \E t \in spans : t[1] = block[3] /\ t[2] = block[2] /\ t[3] <= block[1] /\ block[1] <= t[4]

\* Strictly ascending in (z, y, x0).
AscendingZYX0(ts) ==
    \A i \in 1..(Len(ts) - 1) :
        TupleLess(<<ts[i][1], ts[i][2], ts[i][3]>>, <<ts[i + 1][1], ts[i + 1][2], ts[i + 1][3]>>)

\* No two spans of one (z, y) touch or overlap.
NoTouching(ts) ==
    \A i, j \in 1..Len(ts) :
        (i # j /\ ts[i][1] = ts[j][1] /\ ts[i][2] = ts[j][2])
            => (ts[i][4] + 1 < ts[j][3] \/ ts[j][4] + 1 < ts[i][3])

IsCanonical(ts) ==
    /\ \A i \in 1..Len(ts) : ts[i][3] <= ts[i][4]
    /\ AscendingZYX0(ts)
    /\ NoTouching(ts)

AllPostsOK == \A v \in Versions : \A i \in 1..Len(posts[v]) : posts[v][i].ok

PostedSpans ==
    UNION {UNION {Range(posts[v][i].spans) : i \in 1..Len(posts[v])} : v \in Versions}

\* C1: answer i of POST /ptquery is true iff the block of point i lies in some
\* stored span.
C1_PointQueryEquivalence ==
    resp.op = "POST ptquery" =>
        \A i \in 1..Len(resp.posted) :
            resp.inclusions[i] =
                BlockInSomeSpan(Chunk(resp.posted[i], BlockSize), StoredSpans(resp.v))

\* C2: the answers of POST /ptquery are aligned to the POSTed order: the point
\* answer i was computed for is POSTed point i.
C2_AnswersInPostedOrder ==
    resp.op = "POST ptquery" =>
        /\ Len(resp.inclusions) = Len(resp.posted)
        /\ \A i \in 1..Len(resp.posted) : resp.pts[i] = resp.posted[i]

\* C3: after POST /roi with any input, GET /roi returns spans strictly
\* ascending in (z, y, x0) of which no two of one (z, y) touch or overlap.
C3_GetIsCanonical ==
    (resp.op = "GET roi" /\ posts[resp.v] # <<>> /\ AllPostsOK) =>
        (AscendingZYX0(resp.tuples) /\ NoTouching(resp.tuples))

\* C4: POST /roi is a full overwrite: GET /roi returns only spans of the last
\* POST to that version.
C4_PostIsFullOverwrite ==
    (resp.op = "GET roi" /\ posts[resp.v] # <<>> /\ AllPostsOK) =>
        Range(resp.tuples) \subseteq Range(posts[resp.v][Len(posts[resp.v])].spans)

RECURSIVE SumActiveBlocks(_)
SumActiveBlocks(svs) ==
    IF svs = <<>> THEN 0 ELSE Head(svs).ActiveBlocks + SumActiveBlocks(Tail(svs))

RECURSIVE SumSpanLengths(_)
SumSpanLengths(ts) ==
    IF ts = <<>> THEN 0 ELSE (Head(ts)[4] - Head(ts)[3] + 1) + SumSpanLengths(Tail(ts))

\* C6: GET /partition completes, and the ActiveBlocks of the subvolumes sum
\* up to NumActiveBlocks, which is the number of blocks of the stored spans.
C6_PartitionCoverage ==
    resp.op = "GET partition" =>
        /\ resp.status = 200
        /\ SumActiveBlocks(resp.sv.Subvolumes) = resp.sv.NumActiveBlocks
        /\ resp.sv.NumActiveBlocks = SumSpanLengths(getROI(store[resp.v]))

\* The blocks of the stored spans, and whether the voxels of a block lie
\* between the corners of a subvolume.
ActiveBlocksOf(v) ==
    UNION {{<<x, t[2], t[1]>> : x \in t[3]..t[4]} : t \in StoredSpans(v)}

BlockInBox(block, subvolume) ==
    \A d \in 1..3 :
        /\ subvolume.MinCorner[d] <= MinPoint(block, BlockSize)[d]
        /\ MaxPoint(block, BlockSize)[d] <= subvolume.MaxCorner[d]

\* C7: every active block lies in the box of exactly one subvolume that
\* GET /partition returns (stated for the requests that complete).
C7_PartitionContainment ==
    (resp.op = "GET partition" /\ resp.status = 200) =>
        \A block \in ActiveBlocksOf(resp.v) :
            Cardinality({i \in 1..Len(resp.sv.Subvolumes) :
                            BlockInBox(block, resp.sv.Subvolumes[i])}) = 1

\* C8: GET /partition of an ROI that is one block returns exactly one
\* subvolume, for every batchsize.
C8_SingleBlockOneSubvolume ==
    (/\ resp.op = "GET partition"
     /\ Cardinality(StoredSpans(resp.v)) = 1
     /\ \A t \in StoredSpans(resp.v) : t[3] = t[4]) =>
        (resp.status = 200 /\ Len(resp.sv.Subvolumes) = 1 /\ resp.sv.NumSubvolumes = 1)

\* C9: a POST /roi to a locked version fails and leaves the spans of the
\* version, MinZ and MaxZ as they are.
C9_LockedVersionRefusesPost ==
    [][\A v \in Versions :
          (locked[v] /\ posts'[v] # posts[v]) =>
              (/\ resp'.status = 400
               /\ store'[v] = store[v]
               /\ MinZ' = MinZ
               /\ MaxZ' = MaxZ)]_vars

\* C10: when the POST /roi requests, concurrent ones included, have all
\* succeeded, MinZ and MaxZ are the least and the greatest z of the spans
\* they inserted.
C10_ExtentsCoverAllPosts ==
    (/\ \A p \in Procs : put[p].pc = "idle"
     /\ AllPostsOK
     /\ PostedSpans # {}) =>
        /\ \A t \in PostedSpans : MinZ <= t[1] /\ t[1] <= MaxZ
        /\ \E t \in PostedSpans : MinZ = t[1]
        /\ \E t \in PostedSpans : MaxZ = t[1]

\* The requests between putMutex.Lock() and putMutex.Unlock(): every
\* batch.Commit of a Put happens there.
InPut(p) == put[p].pc \in {"chkMin", "setMin", "chkMax", "setMax", "batch", "final", "exit"}

\* C11: no two POST /roi requests on one version are between Lock and Unlock
\* at the same time, so their commits do not interleave; and a mutex is held
\* only by a request on its own version, so that a request on another version
\* never waits for it.
C11_PutsSerialize ==
    /\ \A p, q \in Procs : (p # q /\ InPut(p) /\ InPut(q)) => put[p].v # put[q].v
    /\ \A v \in Versions : mutex[v] # 0 => (InPut(mutex[v]) /\ put[mutex[v]].v = v)
    /\ \A p \in Procs :
          (put[p].pc = "lock" /\ \A q \in Procs : InPut(q) => put[q].v # put[p].v)
              => mutex[put[p].v] = 0

\* C11 happens: a request waits at Lock for the version of a request that
\* has committed a batch in its loop and has not yet unlocked.
C11_Witness ==
    \E p, q \in Procs :
        /\ put[p].pc = "lock"
        /\ put[q].pc = "final"
        /\ put[q].v = put[p].v
        /\ put[q].i >= BATCH_SIZE
        /\ store[put[q].v] # {}

\* C11 happens: two requests on different versions are both between Lock and
\* Unlock.
C11_WitnessDifferentVersions ==
    \E p, q \in Procs : InPut(p) /\ InPut(q) /\ put[p].v # put[q].v

\* =========================================================== the web server
\* UUIDs are strings of UuidLen hexadecimal digits, of which the model has
\* two.
UuidLen == 2
HexDigits == {"a", "b"}
UUIDs == [1..UuidLen -> HexDigits]

\* What a URL carries as :uuid, a segment of the path that is not empty.
UuidParams == UNION {[1..k -> HexDigits] : k \in 1..UuidLen}

Methods == {"GET", "HEAD", "POST", "DELETE"}

\* strings.HasPrefix(s, prefix)
HasPrefix(s, prefix) == Len(prefix) <= Len(s) /\ SubSeq(s, 1, Len(prefix)) = prefix

\* A resolver that returns the first node whose UUID starts with str.
MatchingUUIDFirst(str) ==
    LET matches == {v \in versions : HasPrefix(uuids[v], str)}
    IN IF matches = {} THEN [err |-> "UnknownUUID", versionID |-> 0]
       ELSE [err |-> "", versionID |-> CHOOSE v \in matches : \A o \in matches : v <= o]

\* datastore.MatchingUUID(str): the one node whose UUID starts with str.
MatchingUUID(str) ==
    LET matches == {v \in versions : HasPrefix(uuids[v], str)}
    IN IF matches = {} THEN [err |-> "UnknownUUID", versionID |-> 0]
       ELSE IF Cardinality(matches) > 1 THEN [err |-> "AmbiguousUUID", versionID |-> 0]
       ELSE [err |-> "", versionID |-> CHOOSE v \in matches : TRUE]

\* datastore.RepoFromUUID(uuid), for the node with that UUID.
RepoFromUUID(v) ==
    IF v \in versions /\ repoOf[v] # 0 THEN [err |-> "", repo |-> repoOf[v]]
    ELSE [err |-> "invalid UUID", repo |-> 0]

\* The middleware of WebMux (init) and of mainMux (initRoutes), outermost
\* first.
WebMuxMiddleware == <<"RequestID">>
MainMuxMiddleware == WebMuxMiddleware \o <<"Logger", "Recoverer", "AutomaticOptions">>

\* goji's Get serves GET and HEAD.
IsGet(method) == method \in {"GET", "HEAD"}

Served(route, method, uuid, dataname, status, ran, attached) ==
    [route |-> route, method |-> method, uuid |-> uuid, dataname |-> dataname,
     status |-> status, ran |-> ran, attached |-> attached,
     config |-> NoConfig, afterError |-> <<>>]

\* A repoSelector that takes the first node that matches :uuid and calls the
\* next handler, whether or not other nodes match.
repoSelectorFirstMatch(method, str) ==
    LET matches == {v \in versions : HasPrefix(uuids[v], str)}
    IN IF readonly /\ ~IsGet(method)
       THEN [status |-> 400, attached |-> FALSE, versionID |-> 0, repo |-> 0]
       ELSE IF matches = {}
       THEN [status |-> 400, attached |-> FALSE, versionID |-> 0, repo |-> 0]
       ELSE LET v == CHOOSE w \in matches : \A o \in matches : w <= o
            IN [status |-> 0, attached |-> TRUE, versionID |-> v, repo |-> repoOf[v]]

\* A repoSelector that resolves :uuid in read-only mode as in any other.
repoSelectorNoReadOnly(method, str) ==
    LET m == MatchingUUID(str)
        r == RepoFromUUID(m.versionID)
    IN IF m.err # "" THEN [status |-> 400, attached |-> FALSE, versionID |-> 0, repo |-> 0]
       ELSE IF r.err # ""
       THEN [status |-> 400, attached |-> FALSE, versionID |-> m.versionID, repo |-> 0]
       ELSE [status |-> 0, attached |-> TRUE, versionID |-> m.versionID, repo |-> r.repo]

\* repoSelector: the refusal of read-only mode, then the resolution of
\* :uuid.  status = 0 when the next handler is called.
repoSelector(method, str) ==
    IF readonly /\ ~IsGet(method)
    THEN [status |-> 400, attached |-> FALSE, versionID |-> 0, repo |-> 0]
    ELSE LET m == MatchingUUID(str)
             r == RepoFromUUID(m.versionID)
         IN IF m.err # "" THEN [status |-> 400, attached |-> FALSE, versionID |-> 0, repo |-> 0]
            ELSE IF r.err # ""
            THEN [status |-> 400, attached |-> FALSE, versionID |-> m.versionID, repo |-> 0]
            ELSE [status |-> 0, attached |-> TRUE, versionID |-> m.versionID, repo |-> r.repo]

\* The server process starts, with or without the read-only flag, over the
\* repos and the data that the datastore holds.
Restart(ro) ==
    /\ readonly' = ro
    /\ http' = NoRequest
    /\ UNCHANGED <<roiVars, uuids, repoOf, datas, manager, backend, call>>

\* Any request for /api/load: silentMux has no middleware of its own and
\* one route, GET /api/load.
LoadRequest(method) ==
    /\ http' = IF IsGet(method)
               THEN Served("/api/load", method, <<>>, "", 200,
                           WebMuxMiddleware \o <<"loadHandler">>, FALSE)
               ELSE Served("/api/load", method, <<>>, "", 404, WebMuxMiddleware, FALSE)
    /\ UNCHANGED <<roiVars, readonly, uuids, repoOf, datas, manager, backend, call>>

\* The GET routes of mainMux that take no parameter, and their handlers.
\* /interface and /interface/version are wrapped in logHttpPanics.
StaticRoutes ==
    {"/interface", "/interface/version", "/api/help", "/api/server/info",
     "/api/server/types", "/api/repos/info"}

StaticHandler(route) ==
    CASE route = "/interface" -> <<"logHttpPanics", "interfaceHandler">>
      [] route = "/interface/version" -> <<"logHttpPanics", "versionHandler">>
      [] route = "/api/help" -> <<"helpHandler">>
      [] route = "/api/server/info" -> <<"serverInfoHandler">>
      [] route = "/api/server/types" -> <<"serverTypesHandler">>
      [] route = "/api/repos/info" -> <<"reposInfoHandler">>

\* A request for one of the static routes: any method but GET and HEAD
\* matches no route of mainMux, "/*" included.
StaticRequest(route, method) ==
    /\ route \in StaticRoutes
    /\ http' = IF IsGet(method)
               THEN Served(route, method, <<>>, "", 200,
                           MainMuxMiddleware \o StaticHandler(route), FALSE)
               ELSE Served(route, method, <<>>, "", 404, MainMuxMiddleware, FALSE)
    /\ UNCHANGED <<roiVars, readonly, uuids, repoOf, datas, manager, backend, call>>

\* The id of the next version node.
NextVersion == Cardinality(versions) + 1

\* A request for /api/repos.  POST is routed to reposPostHandler unless the
\* server is read-only; datastore.NewRepo() makes a repo whose root has the
\* new UUID u, or fails, and then the handler answers 400 and goes on to
\* repo.RootUUID() of no repo, a panic that Recoverer catches after the
\* status is sent.  GET and HEAD fall through to "/*" and mainHandler, which
\* has no such resource.
ReposRequest(method, u, ok) ==
    /\ u \in UUIDs \ {uuids[v] : v \in versions}
    /\ IF method = "POST" /\ ~readonly
       THEN IF ok
            THEN /\ NextVersion <= MaxVersions
                 /\ versions' = versions \cup {NextVersion}
                 /\ uuids' = [uuids EXCEPT ![NextVersion] = u]
                 /\ repoOf' = [repoOf EXCEPT ![NextVersion] = NextVersion]
                 /\ http' = Served("/api/repos", method, <<>>, "", 200,
                                   MainMuxMiddleware \o <<"reposPostHandler">>, FALSE)
            ELSE /\ http' = [Served("/api/repos", method, <<>>, "", 400,
                                    MainMuxMiddleware \o <<"reposPostHandler">>, FALSE)
                                EXCEPT !.afterError = <<"w.Header().Set", "repo.RootUUID">>]
                 /\ UNCHANGED <<versions, uuids, repoOf>>
       ELSE /\ http' = IF IsGet(method)
                       THEN Served("/api/repos", method, <<>>, "", 404,
                                   MainMuxMiddleware \o <<"mainHandler">>, FALSE)
                       ELSE Served("/api/repos", method, <<>>, "", 404,
                                   MainMuxMiddleware, FALSE)
            /\ UNCHANGED <<versions, uuids, repoOf>>
    /\ UNCHANGED <<store, MinZ, MaxZ, locked, posts, resp, mutex, put,
                   readonly, datas, manager, backend, call>>

\* strconv.Atoi of a string of decimal digits: an error on the empty string.
RECURSIVE AtoiFrom(_, _, _)
AtoiFrom(str, k, acc) ==
    IF k > Len(str) THEN acc ELSE AtoiFrom(str, k + 1, acc * 10 + str[k])

Atoi(str) ==
    IF str = <<>> THEN [err |-> TRUE, n |-> 0] ELSE [err |-> FALSE, n |-> AtoiFrom(str, 1, 0)]

\* The "partition" case of ServeHTTP (roi.go:837-859): the status and the
\* subvolumes that are sent.  A panic of Partition is answered by Recoverer.
ServePartition(keys, minZ, maxZ, method, batchsizeStr) ==
    LET batchsize == Atoi(batchsizeStr)
    IN IF method # "GET" THEN [status |-> 400, sv |-> EmptySubvolumes]
       ELSE IF batchsize.err THEN [status |-> 400, sv |-> EmptySubvolumes]
       ELSE LET r == Partition(keys, minZ, maxZ, batchsize.n)
            IN [status |-> IF r.panic THEN 500 ELSE 200, sv |-> r]

\* Data.ServeHTTP (roi.go:737-866) on the keys of one version: the status
\* and what the request leaves of keys, d.MinZ and d.MaxZ.  A method that a
\* command has no case for writes nothing, which net/http sends as 200.  The
\* bodies of the requests parse, so Get and PointQuery answer 200.
ServeHTTP(keys, minZ, maxZ, method, keyword, spans, nOK, batchsizeStr) ==
    LET same == [keys |-> keys, MinZ |-> minZ, MaxZ |-> maxZ]
    IN CASE keyword \in {"help", "info"} -> [status |-> 200] @@ same
         [] keyword = "roi" ->
               IF method = "POST"
               THEN LET r == Put(keys, minZ, maxZ, spans, nOK)
                    IN [status |-> IF r.err THEN 400 ELSE 200,
                        keys |-> r.keys, MinZ |-> r.MinZ, MaxZ |-> r.MaxZ]
               ELSE IF method = "GET"
               THEN [status |-> 200] @@ same
               ELSE [status |-> 200] @@ same
         [] keyword = "ptquery" ->
               IF method = "GET" THEN [status |-> 400] @@ same
               ELSE IF method = "POST"
               THEN [status |-> 200] @@ same
               ELSE [status |-> 200] @@ same
         [] keyword = "partition" ->
               [status |-> ServePartition(keys, minZ, maxZ, method, batchsizeStr).status]
                   @@ same
         [] OTHER -> [status |-> 400] @@ same

\* The last segment of a repo URL: the three routes with a fixed name and a
\* data name.
RepoSubs == {"info", "instance", "lock", "branch", "roi"}

\* The JSON that is POSTed to /api/repo/:uuid/instance; "" is a missing
\* field.
NewDataConfigs ==
    {[typename |-> "roi", dataname |-> "roi"], [typename |-> "", dataname |-> "roi"],
     [typename |-> "roi", dataname |-> ""], [typename |-> "nosuchtype", dataname |-> "roi"]}

\* datastore.TypeServiceByName: the server is compiled with the roi type.
CompiledTypes == {"roi"}

\* A request for /api/repo/:uuid/<sub>, through repoSelector to the handler
\* of the route that matches, if any: repoInfoHandler, repoNewDataHandler,
\* repoLockHandler, repoBranchHandler, repoDeleteHandler.  u is the UUID that
\* repo.NewVersion draws for a child.  The model holds the ROI state of one
\* data instance, so a second instance is made only once the first is
\* deleted.
RepoRequest(method, str, sub, config, u) ==
    LET sel == repoSelector(method, str)
        v == sel.versionID
        chain == MainMuxMiddleware \o <<"repoSelector">>
        route == "/api/repo/:uuid/" \o (IF method = "DELETE" THEN ":dataname" ELSE sub)
        dataname == IF method = "DELETE" THEN sub ELSE ""
        answer(status, handler) ==
            [Served(route, method, str, dataname, status, chain \o handler, sel.attached)
                EXCEPT !.config = IF handler = <<"repoNewDataHandler">>
                                  THEN config ELSE NoConfig]
    IN /\ sub \in RepoSubs
       /\ u \in UUIDs \ {uuids[w] : w \in versions}
       /\ IF sel.status # 0
          THEN /\ http' = answer(sel.status, <<>>)
               /\ UNCHANGED <<store, MinZ, MaxZ, versions, locked, uuids, repoOf, datas>>
          ELSE IF IsGet(method) /\ sub = "info"
          THEN /\ http' = answer(200, <<"repoInfoHandler">>)
               /\ UNCHANGED <<store, MinZ, MaxZ, versions, locked, uuids, repoOf, datas>>
          ELSE IF method = "POST" /\ sub = "instance"
          THEN IF \/ config.typename = "" \/ config.dataname = ""
                  \/ config.typename \notin CompiledTypes
                  \/ sel.repo \in datas
               THEN /\ http' = answer(400, <<"repoNewDataHandler">>)
                    /\ UNCHANGED <<store, MinZ, MaxZ, versions, locked, uuids, repoOf, datas>>
               ELSE /\ datas = {}
                    /\ datas' = {sel.repo}
                    /\ MinZ' = MaxInt32
                    /\ MaxZ' = MinInt32
                    /\ http' = answer(200, <<"repoNewDataHandler">>)
                    /\ UNCHANGED <<store, versions, locked, uuids, repoOf>>
          ELSE IF method = "POST" /\ sub = "lock"
          THEN /\ locked' = [locked EXCEPT ![v] = TRUE]
               /\ http' = answer(200, <<"repoLockHandler">>)
               /\ UNCHANGED <<store, MinZ, MaxZ, versions, uuids, repoOf, datas>>
          ELSE IF method = "POST" /\ sub = "branch"
          THEN IF locked[v]
               THEN /\ NextVersion <= MaxVersions
                    /\ versions' = versions \cup {NextVersion}
                    /\ uuids' = [uuids EXCEPT ![NextVersion] = u]
                    /\ repoOf' = [repoOf EXCEPT ![NextVersion] = sel.repo]
                    /\ http' = answer(200, <<"repoBranchHandler">>)
                    /\ UNCHANGED <<store, MinZ, MaxZ, locked, datas>>
               ELSE /\ http' = answer(400, <<"repoBranchHandler">>)
                    /\ UNCHANGED <<store, MinZ, MaxZ, versions, locked, uuids, repoOf, datas>>
          ELSE IF method = "DELETE"
          THEN IF sub = "roi" /\ sel.repo \in datas
               THEN /\ datas' = datas \ {sel.repo}
                    /\ store' = [w \in Versions |-> {}]
                    /\ MinZ' = MaxInt32
                    /\ MaxZ' = MinInt32
                    /\ http' = answer(200, <<"repoDeleteHandler">>)
                    /\ UNCHANGED <<versions, locked, uuids, repoOf>>
               ELSE /\ http' = answer(400, <<"repoDeleteHandler">>)
                    /\ UNCHANGED <<store, MinZ, MaxZ, versions, locked, uuids, repoOf, datas>>
          ELSE /\ http' = answer(404, <<>>)
               /\ UNCHANGED <<store, MinZ, MaxZ, versions, locked, uuids, repoOf, datas>>
       /\ UNCHANGED <<posts, resp, mutex, put, readonly, manager, backend, call>>

\* The names and the keywords that the node URLs of the model carry.
DataNames == {"roi", "nosuchdata"}
Keywords == {"roi", "ptquery", "partition", "info", "nosuchcommand"}

\* A request for /api/node/:uuid/:dataname/:keyword, through repoSelector
\* and instanceSelector to the ServeHTTP of the data instance.
NodeRequest(method, str, dataname, keyword, spans, nOK, batchsizeStr) ==
    LET sel == repoSelector(method, str)
        v == sel.versionID
        route == "/api/node/:uuid/:dataname/" \o keyword
        answer(status, handlers, attached) ==
            Served(route, method, str, dataname, status,
                   MainMuxMiddleware \o handlers, attached)
    IN /\ IF sel.status # 0
          THEN /\ http' = answer(sel.status, <<"repoSelector">>, sel.attached)
               /\ UNCHANGED <<store, MinZ, MaxZ>>
          ELSE IF ~(dataname = "roi" /\ sel.repo \in datas)
          THEN /\ http' = answer(400, <<"repoSelector", "instanceSelector">>, FALSE)
               /\ UNCHANGED <<store, MinZ, MaxZ>>
          ELSE LET r == ServeHTTP(store[v], MinZ, MaxZ, method, keyword, spans, nOK,
                                  batchsizeStr)
               IN /\ http' = answer(r.status,
                                    <<"repoSelector", "instanceSelector", "ServeHTTP">>,
                                    TRUE)
                  /\ store' = [store EXCEPT ![v] = r.keys]
                  /\ MinZ' = r.MinZ
                  /\ MaxZ' = r.MaxZ
       /\ UNCHANGED <<versions, locked, posts, resp, mutex, put,
                      readonly, uuids, repoOf, datas, manager, backend, call>>

\* ---------------------------------------------------- the server's requests
\* A server that has just been installed: no repo, no data, no request.
InitServer ==
    /\ store = [v \in Versions |-> {}]
    /\ MinZ = MaxInt32
    /\ MaxZ = MinInt32
    /\ versions = {}
    /\ locked = [v \in Versions |-> FALSE]
    /\ posts = [v \in Versions |-> <<>>]
    /\ resp = NoResp
    /\ mutex = [v \in Versions |-> 0]
    /\ put = [p \in Procs |-> IdlePut]
    /\ readonly = FALSE
    /\ uuids = [v \in Versions |-> <<>>]
    /\ repoOf = [v \in Versions |-> 0]
    /\ datas = {}
    /\ http = NoRequest
    /\ manager = NoManager
    /\ backend = NoBackend
    /\ call = NoCall

\* The digits of n, least significant first, as a UUID of k digits.
RECURSIVE UuidOfNumber(_, _)
UuidOfNumber(n, k) ==
    IF k = 0 THEN <<>>
    ELSE UuidOfNumber(n \div 2, k - 1) \o <<IF n % 2 = 0 THEN "a" ELSE "b">>

\* The UUID that the v-th node gets in the runs of SpecServer: the nodes
\* share prefixes, and the last UUID belongs to no node.
NodeUUID(v) == UuidOfNumber(v - 1, UuidLen)
NoNodeUUID == [i \in 1..UuidLen |-> "b"]

\* The :uuid of the requests: the prefixes of one digit, the whole UUIDs of
\* the nodes and one UUID of no node.
ServerParams ==
    {<<d>> : d \in HexDigits} \cup {NodeUUID(v) : v \in Versions} \cup {NoNodeUUID}

\* What the requests of SpecServer carry where the route reads it: the
\* config of a new instance, the spans of a POST /roi, the batchsize of a
\* partition.
ConfigsOf(method, sub) ==
    IF method = "POST" /\ sub = "instance" THEN NewDataConfigs ELSE {NoConfig}

SpansOf(method, keyword) ==
    IF method = "POST" /\ keyword = "roi" THEN {<<<<0, 0, 0, 0>>>>} ELSE {<<>>}

BatchsizeStrsOf(method, keyword) ==
    IF method = "GET" /\ keyword = "partition" THEN {<<>>, <<1>>} ELSE {<<>>}

\* No handler reads http, so a request that follows another reaches only
\* what it reaches after a restart in the same mode, which clears http: the
\* requests are taken when http is NoRequest.
NextServer ==
    \/ \E ro \in BOOLEAN : Restart(ro)
    \/ \E method \in Methods : http = NoRequest /\ LoadRequest(method)
    \/ \E route \in StaticRoutes, method \in Methods :
          http = NoRequest /\ StaticRequest(route, method)
    \/ \E method \in Methods, ok \in BOOLEAN :
          http = NoRequest /\ ReposRequest(method, NodeUUID(NextVersion), ok)
    \/ \E method \in Methods, str \in ServerParams, sub \in RepoSubs :
          /\ http = NoRequest
          /\ \E config \in ConfigsOf(method, sub) :
                RepoRequest(method, str, sub, config, NodeUUID(NextVersion))
    \/ \E method \in Methods, str \in ServerParams, dataname \in DataNames,
          keyword \in Keywords :
          /\ http = NoRequest
          /\ \E spans \in SpansOf(method, keyword),
                batchsizeStr \in BatchsizeStrsOf(method, keyword) :
                NodeRequest(method, str, dataname, keyword, spans, NumCommits(Len(spans)),
                            batchsizeStr)

SpecServer == InitServer /\ [][NextServer]_vars

\* ------------------------------------------------------ the server's claims
\* What the repos, the nodes and the data of the server hold.
ServerState == <<store, MinZ, MaxZ, versions, locked, uuids, repoOf, datas>>

\* The route patterns under /api/repo/ and under /api/node/.
RepoRoutes == {"/api/repo/:uuid/" \o sub : sub \in RepoSubs \cup {":dataname"}}
NodeRoutes == {"/api/node/:uuid/:dataname/" \o keyword : keyword \in Keywords}

\* The names that the route handlers and the data handler have in http.ran.
Handlers ==
    {"loadHandler", "interfaceHandler", "versionHandler", "helpHandler",
     "serverInfoHandler", "serverTypesHandler", "reposInfoHandler", "reposPostHandler",
     "mainHandler", "repoInfoHandler", "repoNewDataHandler", "repoLockHandler",
     "repoBranchHandler", "repoDeleteHandler", "ServeHTTP"}

HandlerRan(request) == \E i \in 1..Len(request.ran) : request.ran[i] \in Handlers

\* C12: while the server is in read-only mode no request, whatever its verb
\* and its route, changes what the repos, the nodes and the data hold, so the
\* answers of the GETs stay the same; and a request under /api/repo/ or
\* /api/node/ that is neither GET nor HEAD is answered 400 by repoSelector
\* before the UUID is resolved and before any handler runs.
C12_ReadOnlySafety ==
    [][(readonly /\ readonly') =>
          /\ UNCHANGED ServerState
          /\ (http'.route \in RepoRoutes \cup NodeRoutes /\ ~IsGet(http'.method)) =>
                /\ http'.status = 400
                /\ http'.ran = MainMuxMiddleware \o <<"repoSelector">>
                /\ ~http'.attached
                /\ ~HandlerRan(http')]_vars

\* A read-only server refused a POST to the ROI of a node that exists and
\* holds spans.
C12_Witness ==
    /\ readonly
    /\ http.method = "POST"
    /\ http.route = "/api/node/:uuid/:dataname/roi"
    /\ http.dataname = "roi"
    /\ http.status = 400
    /\ MatchingUUID(http.uuid).err = ""
    /\ datas # {}
    /\ store[MatchingUUID(http.uuid).versionID] # {}

\* C13: a read-only server answers POST /api/repos with status 400, the
\* refusal that repoSelector gives under /api/repo/ and /api/node/.
C13_ReadOnlyReposPostIs400 ==
    (readonly /\ http.route = "/api/repos" /\ http.method = "POST") => http.status = 400

\* repo.GetDataByName(dataname) finds a data instance.
HasData(repo, dataname) == dataname = "roi" /\ repo \in datas

\* C14: under /api/repo/{uuid}/ and /api/node/{uuid}/{dataname}/ a route
\* handler or the data handler runs only when the middleware has resolved
\* the UUID to one node and its repo (and, under /api/node/, found the data
\* name) and attached them; when the UUID matches no node or several, or the
\* repo or the data name is not found, the answer is 400 and no handler runs.
C14_HandlerOnlyAfterResolution ==
    [][http'.route \in RepoRoutes \cup NodeRoutes =>
          LET m == MatchingUUID(http'.uuid)
              r == RepoFromUUID(m.versionID)
              found == /\ m.err = ""
                       /\ r.err = ""
                       /\ http'.route \in NodeRoutes => HasData(r.repo, http'.dataname)
          IN /\ HandlerRan(http') => (found /\ http'.attached)
             /\ ~found => (http'.status = 400 /\ ~HandlerRan(http'))]_vars

\* The data handler served a POST for a node that a proper prefix of its
\* UUID names; a request whose prefix names two nodes was answered 400.
C14_Witness ==
    /\ http.route \in NodeRoutes
    /\ HandlerRan(http)
    /\ http.attached
    /\ Len(http.uuid) < UuidLen
    /\ http.method = "POST"
    /\ http.status = 200

C14_WitnessAmbiguous ==
    /\ http.route \in RepoRoutes \cup NodeRoutes
    /\ MatchingUUID(http.uuid).err = "AmbiguousUUID"
    /\ http.status = 400
    /\ ~readonly


\* C18: every route handler, the one of /api/load included, runs inside the
\* recover middleware, after request-id, logger, recover and auto-OPTIONS in
\* that order, so that a panic of the handler ends in an error response.
C18_HandlersInsideRecover ==
    HandlerRan(http) =>
        /\ Len(http.ran) > 4
        /\ SubSeq(http.ran, 1, 4) = <<"RequestID", "Logger", "Recoverer", "AutomaticOptions">>
        /\ \A i \in 5..Len(http.ran) :
              http.ran[i] \notin {"RequestID", "Logger", "Recoverer", "AutomaticOptions"}

\* ------------------------------------------------------------ UUID resolver
\* Repos are created with any UUID that no node has, and GET and HEAD
\* /api/repo/:uuid/info are served for any :uuid.
NextUUID ==
    \/ Restart(FALSE)
    \/ \E u \in UUIDs : http = NoRequest /\ ReposRequest("POST", u, TRUE)
    \/ \E method \in {"GET", "HEAD"}, str \in UuidParams :
          http = NoRequest /\ RepoRequest(method, str, "info", NoConfig, NoNodeUUID)

SpecUUID == InitServer /\ [][NextUUID]_vars

\* The first k digits of the UUID of node v.
Prefix(v, k) == SubSeq(uuids[v], 1, k)

\* The nodes other than v whose UUID has the same first k digits.
SharePrefix(v, k) == {w \in versions \ {v} : \A i \in 1..k : uuids[w][i] = uuids[v][i]}

\* The length of the shortest prefix of the UUID of v that no other node has.
MinUniquePrefix(v) == CHOOSE k \in 1..UuidLen :
    /\ SharePrefix(v, k) = {}
    /\ \A j \in 1..(k - 1) : SharePrefix(v, j) # {}

\* The number of nodes whose UUID starts with str, counted digit by digit.
NumStartingWith(str) ==
    Cardinality({v \in versions : Len(str) <= Len(uuids[v])
                                    /\ \A i \in 1..Len(str) : uuids[v][i] = str[i]})

\* C15: resolving a hex string returns the one node whose UUID starts with
\* it when there is exactly one, UnknownUUID when there is none and
\* AmbiguousUUID when there are several; so every prefix of the root UUID of
\* a repo that is at least as long as its minimal unique prefix resolves to
\* that root, whatever repos have been created besides it; and GET
\* /api/repo/:uuid/info answers 200 exactly for the strings that resolve.
C15_UUIDResolution ==
    /\ \A str \in UuidParams :
          LET r == MatchingUUID(str)
              n == NumStartingWith(str)
          IN /\ n = 1 => (r.err = "" /\ r.versionID \in versions
                          /\ Prefix(r.versionID, Len(str)) = str)
             /\ n = 0 => r.err = "UnknownUUID"
             /\ n > 1 => r.err = "AmbiguousUUID"
    /\ \A v \in versions :
          repoOf[v] = v =>
              \A k \in MinUniquePrefix(v)..UuidLen :
                  MatchingUUID(Prefix(v, k)) = [err |-> "", versionID |-> v]
    /\ http.route = "/api/repo/:uuid/info" =>
          (http.status = 200 <=> NumStartingWith(http.uuid) = 1)

\* Two repos whose roots share their first digit, one of them fetched by its
\* whole UUID, its minimal unique prefix.
C15_Witness ==
    \E v, w \in versions :
        /\ v # w
        /\ repoOf[v] = v
        /\ repoOf[w] = w
        /\ MinUniquePrefix(v) > 1
        /\ http.route = "/api/repo/:uuid/info"
        /\ http.uuid = Prefix(v, MinUniquePrefix(v))
        /\ http.status = 200

\* ======================================================= the storage manager
\* storage.Initialize(kvEngine, description): an engine that is an ordered
\* key-value database with graph support becomes all three tiers.
Initialize(kvEngine, ok) ==
    /\ manager' = IF ok
                  THEN [manager EXCEPT !.metadata = kvEngine, !.mutable = kvEngine,
                                       !.immutable = kvEngine, !.setup = TRUE,
                                       !.last = NoDelete]
                  ELSE manager
    /\ UNCHANGED <<roiVars, readonly, uuids, repoOf, datas, http, backend, call>>

\* MetaDataStore(), MutableStore() and ImmutableStore(): the engine behind
\* a tier, 0 before the manager is set up.
TierStore(tier) ==
    IF ~manager.setup THEN 0
    ELSE CASE tier = "metadata" -> manager.metadata
           [] tier = "mutable" -> manager.mutable
           [] tier = "immutable" -> manager.immutable

Tiers == {"metadata", "mutable", "immutable"}

\* A data instance stores a key through the store of a tier.
StoreKey(tier, data) ==
    /\ TierStore(tier) # 0
    /\ manager' = [manager EXCEPT !.keys[TierStore(tier)] = @ \cup {data},
                                  !.last = NoDelete]
    /\ UNCHANGED <<roiVars, readonly, uuids, repoOf, datas, http, backend, call>>

\* The loop of DeleteDataInstance over dbs from position k on: db.DeleteAll
\* removes the keys of the instance, or fails and the loop is left; the
\* first nOK calls succeed.
RECURSIVE DeleteLoop(_, _, _, _, _)
DeleteLoop(dbs, k, data, st, nOK) ==
    IF k > Len(dbs) THEN st
    ELSE LET called == [st EXCEPT !.last.calls = Append(@, dbs[k])]
         IN IF k > nOK THEN [called EXCEPT !.last.err = TRUE]
            ELSE DeleteLoop(dbs, k + 1, data,
                            [called EXCEPT !.keys[dbs[k]] = @ \ {data}], nOK)

\* A DeleteDataInstance whose list of databases starts empty.
DeleteDataInstanceNoMutable(data, nOK) ==
    /\ manager' =
          IF ~manager.setup THEN [manager EXCEPT !.last = [NoDelete EXCEPT !.data = data,
                                                                         !.err = TRUE]]
          ELSE LET dbs == IF manager.mutable # manager.immutable
                          THEN <<manager.immutable>> ELSE <<>>
               IN DeleteLoop(dbs, 1, data,
                             [manager EXCEPT !.last = [NoDelete EXCEPT !.data = data]], nOK)
    /\ UNCHANGED <<roiVars, readonly, uuids, repoOf, datas, http, backend, call>>

\* storage.DeleteDataInstance(data): DeleteAll on the mutable tier and, if
\* it is another database, on the immutable tier.
DeleteDataInstance(data, nOK) ==
    /\ manager' =
          IF ~manager.setup THEN [manager EXCEPT !.last = [NoDelete EXCEPT !.data = data,
                                                                         !.err = TRUE]]
          ELSE LET dbs == <<manager.mutable>> \o
                          (IF manager.mutable # manager.immutable
                           THEN <<manager.immutable>> ELSE <<>>)
               IN DeleteLoop(dbs, 1, data,
                             [manager EXCEPT !.last = [NoDelete EXCEPT !.data = data]], nOK)
    /\ UNCHANGED <<roiVars, readonly, uuids, repoOf, datas, http, backend, call>>

NextStorage ==
    \/ \E kvEngine \in Engines, ok \in BOOLEAN : Initialize(kvEngine, ok)
    \/ \E tier \in Tiers, data \in InstanceIds : StoreKey(tier, data)
    \/ \E data \in InstanceIds, nOK \in 0..Cardinality(Tiers) :
          DeleteDataInstance(data, nOK)

SpecStorage == InitServer /\ [][NextStorage]_vars

\* The engines behind the three tiers.
TierEngines(mgr) == {mgr.metadata, mgr.mutable, mgr.immutable}

\* C16: a DeleteDataInstance that returns no error has called DeleteAll for
\* the instance once on each distinct engine among the metadata, mutable and
\* immutable tiers and on nothing else, and afterwards no tier holds a key
\* with the id of the instance; no call is made twice on one engine even
\* when an error ends the deletion.
C16_DeleteOnEveryDistinctEngine ==
    LET last == manager.last
        calls == last.calls
    IN (last.data # 0 /\ manager.setup) =>
          /\ \A i, j \in 1..Len(calls) : calls[i] = calls[j] => i = j
          /\ ~last.err =>
                /\ {calls[i] : i \in 1..Len(calls)} = TierEngines(manager)
                /\ \A e \in TierEngines(manager) : last.data \notin manager.keys[e]

\* An instance was deleted without error by a call of DeleteAll, while
\* another instance keeps its keys in the store of the metadata tier.
C16_Witness ==
    /\ manager.setup
    /\ manager.last.data # 0
    /\ ~manager.last.err
    /\ manager.last.calls # <<>>
    /\ \E d \in InstanceIds \ {manager.last.data} : d \in manager.keys[manager.metadata]

\* ================================================================ LoadConfig
\* Names are strings, here sequences whose elements are a quotation mark or
\* a run of other characters; <<>> is the empty string.
Quote == "\""

\* strings.Trim(s, "\""): s without its leading and trailing quotation marks.
RECURSIVE TrimLeft(_)
TrimLeft(s) == IF s # <<>> /\ Head(s) = Quote THEN TrimLeft(Tail(s)) ELSE s

RECURSIVE TrimRight(_)
TrimRight(s) ==
    IF s # <<>> /\ s[Len(s)] = Quote THEN TrimRight(SubSeq(s, 1, Len(s) - 1)) ELSE s

Trim(s) == TrimRight(TrimLeft(s))

\* The aliases of the [store.<alias>] tables and the data specifiers of the
\* [backend.<specifier>] tables that the configurations of the model use, as
\* the TOML decoder hands them over.
Aliases == {<<"raid6">>, <<"ssd">>, <<Quote, "raid6", Quote>>}
Specifiers == {<<"default">>, <<Quote, "default", Quote>>, <<"metadata">>, <<"roi">>}

\* The configurations: the declared stores, each with an engine, and the
\* backends, each with the alias of its store.
Backends == UNION {[keys -> Aliases] : keys \in SUBSET Specifiers}
Configs == [Store : SUBSET Aliases, Backend : Backends]

\* The backend.KVStore maps that the loop over tc.Backend can build: every
\* specifier is trimmed, and of two keys with one specifier the one that the
\* map iteration visits last stays.
KVStores(tc) ==
    LET specs == {Trim(k) : k \in DOMAIN tc.Backend}
    IN {kv \in [specs -> Aliases] :
           \A spec \in specs : \E k \in DOMAIN tc.Backend :
               Trim(k) = spec /\ tc.Backend[k] = kv[spec]}

\* What LoadConfig returns for a file that decodes to tc, when kv is the
\* KVStore that its loop builds.
LoadConfigResult(tc, kv) ==
    LET Stores == tc.Store
        one == IF Cardinality(Stores) = 1 THEN Trim(CHOOSE k \in Stores : TRUE) ELSE <<>>
        failed == [loaded |-> TRUE, tc |-> tc, err |-> TRUE,
                   DefaultKVDB |-> <<>>, Metadata |-> <<>>]
        DefaultKVDB == IF <<"default">> \in DOMAIN kv THEN kv[<<"default">>] ELSE one
    IN IF \E k \in DOMAIN tc.Backend : tc.Backend[k] \notin Stores THEN failed
       ELSE IF DefaultKVDB = <<>> THEN failed
       ELSE [loaded |-> TRUE, tc |-> tc, err |-> FALSE,
             DefaultKVDB |-> DefaultKVDB,
             Metadata |-> IF <<"metadata">> \in DOMAIN kv THEN kv[<<"metadata">>]
                          ELSE DefaultKVDB]

\* LoadConfig(filename), called once when the server starts.
LoadConfig(tc) ==
    /\ backend = NoBackend
    /\ call = NoCall
    /\ \E kv \in KVStores(tc) : backend' = LoadConfigResult(tc, kv)
    /\ UNCHANGED <<roiVars, readonly, uuids, repoOf, datas, http, manager, call>>

NextConfig == \E tc \in Configs : LoadConfig(tc)

SpecConfig == InitServer /\ [][NextConfig]_vars

\* The stores of the backends that the configuration names default.
DefaultBackendStores(tc) ==
    {tc.Backend[k] : k \in {s \in DOMAIN tc.Backend : Trim(s) = <<"default">>}}

MetadataBackendStores(tc) ==
    {tc.Backend[k] : k \in {s \in DOMAIN tc.Backend : Trim(s) = <<"metadata">>}}

\* C17: LoadConfig fails when more than one store is declared and no default
\* backend is given; when it succeeds, the default store is a declared
\* store, the store of the default backend or else the only declared store,
\* and the metadata store is the store of the metadata backend if there is
\* one and the default store otherwise.
C17_LoadConfigDefaults ==
    backend.loaded =>
        LET tc == backend.tc
        IN /\ (Cardinality(tc.Store) > 1 /\ DefaultBackendStores(tc) = {}) => backend.err
           /\ ~backend.err =>
                 /\ backend.DefaultKVDB \in tc.Store
                 /\ IF DefaultBackendStores(tc) # {}
                    THEN backend.DefaultKVDB \in DefaultBackendStores(tc)
                    ELSE tc.Store = {backend.DefaultKVDB}
                 /\ IF MetadataBackendStores(tc) # {}
                    THEN backend.Metadata \in MetadataBackendStores(tc)
                    ELSE backend.Metadata = backend.DefaultKVDB

\* ======================================================== failing range scans
\* The keys that the callback of db.ProcessRange has been called with when
\* the scan returns an error after n chunks.
ScannedKeys(keys, n) == Range(SubSeq(ProcessRange(keys), 1, n))

\* GET /roi whose scan fails after n chunks: getROI drops the error of
\* ProcessRange and returns the spans so far with a nil error (roi.go:309,
\* 325), which Get encodes and ServeHTTP sends.
GetScanError(v, n) ==
    /\ v \in versions
    /\ ~IsRead(resp.op)
    /\ n \in 0..Cardinality(store[v])
    /\ resp' = [NoResp EXCEPT !.op = "GET roi", !.v = v, !.status = 200,
                              !.tuples = getROI(ScannedKeys(store[v], n)),
                              !.scanErr = TRUE, !.logged = FALSE]
    /\ UNCHANGED <<store, MinZ, MaxZ, versions, locked, posts, mutex, put, serverVars>>

\* POST /ptquery whose scan fails after n chunks: PointQuery answers from
\* the spans that getROI returns.
PtqueryScanError(v, n, posted) ==
    /\ v \in versions
    /\ ~IsRead(resp.op)
    /\ n \in 0..Cardinality(store[v])
    /\ LET r == PointQuery(ScannedKeys(store[v], n), posted)
       IN resp' = [NoResp EXCEPT !.op = "POST ptquery", !.v = v, !.status = 200,
                                 !.posted = posted, !.pts = r.pts,
                                 !.inclusions = r.inclusions,
                                 !.scanErr = TRUE, !.logged = FALSE]
    /\ UNCHANGED <<store, MinZ, MaxZ, versions, locked, posts, mutex, put, serverVars>>

\* GET /partition whose scan fails after n chunks: Partition assigns the
\* error of ProcessRange (roi.go:676) and goes on to the last layer and the
\* encoding without reading it.
PartitionScanError(v, n, batchsize) ==
    /\ v \in versions
    /\ ~IsRead(resp.op)
    /\ n \in 0..Cardinality(store[v])
    /\ LET r == Partition(ScannedKeys(store[v], n), MinZ, MaxZ, batchsize)
       IN resp' = [NoResp EXCEPT !.op = "GET partition", !.v = v,
                                 !.status = IF r.panic THEN 500 ELSE 200,
                                 !.batchsize = batchsize, !.sv = r,
                                 !.scanErr = TRUE, !.logged = FALSE]
    /\ UNCHANGED <<store, MinZ, MaxZ, versions, locked, posts, mutex, put, serverVars>>

\* One POST /roi to the empty ROI, then reads whose scan fails.
NextScan ==
    \/ FirstPost(RepoSpanLists)
    \/ \E n \in 0..MaxSpans : GetScanError(1, n)
    \/ \E n \in 0..MaxSpans, posted \in ListsOver(QueryPoints, 1) : PtqueryScanError(1, n, posted)
    \/ \E n \in 0..MaxSpans, batchsize \in 1..MaxBatch : PartitionScanError(1, n, batchsize)

SpecScan == Init /\ [][NextScan]_vars

\* C19: a request whose range scan returned an error answers with an error
\* status, or at least logs the error; it never answers 200 with what the
\* scan had delivered so far and no trace of the error.
C19_NoSwallowedScanError ==
    resp.scanErr => (resp.status # 200 \/ resp.logged)

\* ================================================= the batchsize of a partition
\* The batchsize that the help of the data type promises for a request
\* without one.
DefaultBatchsize == 8

\* GET <api URL>/node/<UUID>/<data name>/partition with the query string
\* batchsize=<batchsizeStr>, or with none when batchsizeStr is empty:
\* queryValues.Get returns "" then.
GetPartitionQuery(v, batchsizeStr) ==
    /\ v \in versions
    /\ ~IsRead(resp.op)
    /\ LET r == ServePartition(store[v], MinZ, MaxZ, "GET", batchsizeStr)
       IN resp' = [NoResp EXCEPT !.op = IF batchsizeStr = <<>>
                                        THEN "GET partition, no batchsize"
                                        ELSE "GET partition",
                                 !.v = v, !.status = r.status,
                                 !.batchsize = Atoi(batchsizeStr).n, !.sv = r.sv]
    /\ UNCHANGED <<store, MinZ, MaxZ, versions, locked, posts, mutex, put, serverVars>>

\* One POST /roi to the empty ROI, then partitions with and without a
\* batchsize.
NextPartitionQuery ==
    \/ FirstPost(PartitionSpanLists)
    \/ \E batchsizeStr \in {<<>>, <<DefaultBatchsize>>} \cup {<<b>> : b \in 1..MaxBatch} :
          GetPartitionQuery(1, batchsizeStr)

SpecPartitionQuery == Init /\ [][NextPartitionQuery]_vars

\* C20: GET /partition without batchsize answers what GET
\* /partition?batchsize=8 answers, the partition with the default batchsize.
C20_DefaultBatchsize ==
    resp.op = "GET partition, no batchsize" =>
        LET r == ServePartition(store[resp.v], MinZ, MaxZ, "GET", <<DefaultBatchsize>>)
        IN /\ resp.status = r.status
           /\ resp.sv = r.sv

\* ---------------------------------------------------------------------
\* Error responses of the repo-level handlers
\* ---------------------------------------------------------------------

\* A body of POST /api/repo/:uuid/instance that repoNewDataHandler refuses.
BadNewDataConfig(config) ==
    \/ config.typename = ""
    \/ config.dataname = ""
    \/ config.typename \notin CompiledTypes

\* C21: an error response of a repo-level handler is terminal.  A POST
\* /api/repo/:uuid/instance with a missing typename or dataname or with an
\* unknown type answers 400 and creates no instance, and a POST /api/repos
\* whose repo creation fails answers 400 and nothing more: the handler
\* neither writes to the response again nor uses the repo it did not get.
C21_ErrorResponseIsTerminal ==
    [][/\ ( /\ http'.route = "/api/repo/:uuid/instance"
            /\ "repoNewDataHandler" \in Range(http'.ran)
            /\ BadNewDataConfig(http'.config) )
          => /\ http'.status = 400
             /\ http'.afterError = <<>>
             /\ datas' = datas
       /\ ( /\ http'.route = "/api/repos"
            /\ "reposPostHandler" \in Range(http'.ran)
            /\ http'.status = 400 )
          => /\ http'.afterError = <<>>
             /\ UNCHANGED ServerState]_vars

\* The half of C21 that is about repoNewDataHandler alone.
C21_NewDataErrorIsTerminal ==
    [][( /\ http'.route = "/api/repo/:uuid/instance"
         /\ "repoNewDataHandler" \in Range(http'.ran)
         /\ BadNewDataConfig(http'.config) )
       => /\ http'.status = 400
          /\ http'.afterError = <<>>
          /\ datas' = datas]_vars

\* ---------------------------------------------------------------------
\* The point query of the worked example
\* ---------------------------------------------------------------------

\* The ROI of the example, tuples (z, y, x0, x1), and the voxel points
\* (x, y, z) that are asked about.
ExampleROI == <<<<0, 0, 0, 1>>, <<0, 0, 3, 5>>, <<0, 2, 8, 9>>, <<1, 2, 3, 4>>>>

ExamplePoints == <<<<0, 0, 0>>, <<0, 0, 64>>, <<32, 64, 256>>, <<96, 64, 256>>>>

\* The lists that keep some elements of s, in the order of s.
RECURSIVE SubLists(_)
SubLists(s) ==
    IF s = <<>> THEN {<<>>}
    ELSE LET rest == SubLists(Tail(s))
         IN rest \cup {<<Head(s)>> \o t : t \in rest}

\* One POST /roi of spans of the example to the empty ROI, then POST
\* /ptquery of points of the example.
NextExample ==
    \/ FirstPost(SubLists(ExampleROI))
    \/ \E posted \in SubLists(ExamplePoints) : Ptquery(1, posted)

SpecExample == Init /\ [][NextExample]_vars

\* The whole list of example points asked of the whole example ROI.
ExampleAsked ==
    /\ resp.op = "POST ptquery"
    /\ StoredSpans(resp.v) = Range(ExampleROI)
    /\ resp.posted = ExamplePoints

\* C22, as amended: over the ROI [[0,0,0,1],[0,0,3,5],[0,2,8,9],[1,2,3,4]]
\* with BlockSize 32, POST /ptquery of [[0,0,0],[0,0,64],[32,64,256],
\* [96,64,256]] returns [true, false, false, false], which is also the
\* membership of each point's block in the spans of the ROI.
C22_ExampleAnswer ==
    ExampleAsked =>
        /\ resp.inclusions = <<TRUE, FALSE, FALSE, FALSE>>
        /\ \A i \in 1..Len(resp.posted) :
               resp.inclusions[i] =
                   BlockInSomeSpan(Chunk(resp.posted[i], BlockSize), Range(ExampleROI))

\* C22, as stated: the same query returns [true, false, true, false].
C22_ExampleAnswerAsStated ==
    ExampleAsked => resp.inclusions = <<TRUE, FALSE, TRUE, FALSE>>

C22_Witness ==
    /\ ExampleAsked
    /\ resp.status = 200
    /\ Len(resp.inclusions) = 4

\* ---------------------------------------------------------------------
\* tuple.less as an order
\* ---------------------------------------------------------------------

\* The spans and the blocks that tuple.less is called with.
LessTuples == TuplesOver(0..(MaxCoord + 1), 0..(MaxCoord + 1), 0..(MaxCoord + 1))

LessBlocks == (0..(MaxCoord + 1)) \X (0..(MaxCoord + 1)) \X (0..(MaxCoord + 1))

\* A call curSpan.less(chunkPt) about to be made, as seekSpan makes it.
InitLess ==
    /\ Started
    /\ \E t \in LessTuples, block \in LessBlocks :
           call = [fn |-> "tuple.less", args |-> <<t, block>>,
                   done |-> FALSE, result |-> FALSE]

\* The call returns.
CallLess ==
    /\ call.fn = "tuple.less"
    /\ ~call.done
    /\ call' = [call EXCEPT !.done = TRUE, !.result = less(call.args[1], call.args[2])]
    /\ UNCHANGED <<roiVars, readonly, uuids, repoOf, datas, http, manager, backend>>

SpecLess == InitLess /\ [][CallLess]_vars

\* (a1, a2, a3) before (b1, b2, b3) in the lexicographic order, strictly.
LexLess(a, b) ==
    \/ a[1] < b[1]
    \/ a[1] = b[1] /\ a[2] < b[2]
    \/ a[1] = b[1] /\ a[2] = b[2] /\ a[3] < b[3]

\* C23: tuple.less(block) holds exactly when (span.z, span.y, span.x1) is
\* strictly smaller than (block.z, block.y, block.x) in the lexicographic
\* order; a span whose x1 is the block's x at the same (z, y) is not less,
\* and a span with a smaller z and a larger y is less.
C23_LessIsLexicographic ==
    (call.fn = "tuple.less" /\ call.done) =>
        LET t == call.args[1]
            block == call.args[2]
        IN call.result = LexLess(<<t[1], t[2], t[4]>>, <<block[3], block[2], block[1]>>)

\* ---------------------------------------------------------------------
\* The layers of Partition
\* ---------------------------------------------------------------------

\* The callback of Partition's range scan over the chunks from k on, seen
\* from outside: for each chunk that layer.extend is called with, the z of
\* its span and the Z range of the layer the span is added to.
RECURSIVE extended(_, _, _, _)
extended(chunks, k, st, batchsize) ==
    IF st.sv.panic \/ k > Len(chunks) THEN <<>>
    ELSE LET index == IndexFromBytes(chunks[k])
             after == scanChunk(st, index, batchsize)
         IN IF after.sv.panic THEN <<>>
            ELSE <<[z |-> index.start[3], minZ |-> after.layer.minZ,
                    maxZ |-> after.layer.maxZ]>>
                 \o extended(chunks, k + 1, after, batchsize)

\* GET /partition?batchsize=<batchsize> on version v, with the calls of
\* layer.extend that the request makes.
GetPartitionLayers(v, batchsize) ==
    /\ v \in versions
    /\ ~IsRead(resp.op)
    /\ LET r == Partition(store[v], MinZ, MaxZ, batchsize)
       IN resp' = [NoResp EXCEPT !.op = "GET partition", !.v = v,
                                 !.status = IF r.panic THEN 500 ELSE 200,
                                 !.batchsize = batchsize, !.sv = r]
    /\ call' = [fn |-> "layer.extend", args |-> <<v, batchsize>>, done |-> TRUE,
                result |-> extended(ProcessRange(store[v]), 1,
                                    firstLayer(MinZ, MaxZ, batchsize), batchsize)]
    /\ UNCHANGED <<store, MinZ, MaxZ, versions, locked, posts, mutex, put,
                   readonly, uuids, repoOf, datas, http, manager, backend>>

NextLayers ==
    \/ FirstPost(PartitionSpanLists)
    \/ \E batchsize \in 1..MaxBatch : GetPartitionLayers(1, batchsize)

SpecLayers == Init /\ [][NextLayers]_vars

\* C24: in Partition's layer pass every span is put into a layer whose Z
\* range [minZ, maxZ] contains the span's z, also when the span lies more
\* than one layer height beyond the current layer because of a gap in Z.
C24_SpanInLayerOfItsZ ==
    call.fn = "layer.extend" =>
        \A i \in 1..Len(call.result) :
            /\ call.result[i].minZ <= call.result[i].z
            /\ call.result[i].z <= call.result[i].maxZ

\* ---------------------------------------------------------------------
\* The corners of the subvolumes
\* ---------------------------------------------------------------------

\* The voxel is the minimum, or the maximum, voxel of the block it lies in.
IsMinVoxel(pt) == pt = MinPoint(Chunk(pt, BlockSize), BlockSize)

IsMaxVoxel(pt) == pt = MaxPoint(Chunk(pt, BlockSize), BlockSize)

\* C25: every subvolume that Partition returns, newly emitted or extended
\* by a merge, has for MinCorner the minimum voxel of its minimum block and
\* for MaxCorner the maximum voxel of its maximum block.
C25_CornersAreBlockCorners ==
    (resp.op = "GET partition" /\ resp.status = 200) =>
        \A i \in 1..Len(resp.sv.Subvolumes) :
            /\ IsMinVoxel(resp.sv.Subvolumes[i].MinCorner)
            /\ IsMaxVoxel(resp.sv.Subvolumes[i].MaxCorner)

\* The column that was emitted as subvolume lastI.
EmittedAs(columns, lastI) ==
    CHOOSE i \in 1..Len(columns) : columns[i].lastI = lastI /\ ~columns[i].merged

\* C26: a column whose active block count is below the merge threshold is
\* merged only into a subvolume that was emitted earlier in the same Y row of
\* the same Z layer, never into a subvolume of a previous row or layer.
C26_MergeStaysInRowAndLayer ==
    (resp.op = "GET partition" /\ resp.status = 200) =>
        \A i \in 1..Len(resp.sv.columns) :
            resp.sv.columns[i].merged =>
                LET column == resp.sv.columns[i]
                    emitted == resp.sv.columns[EmittedAs(resp.sv.columns, column.lastI)]
                IN /\ EmittedAs(resp.sv.columns, column.lastI) < i
                   /\ column.minCorner[2] = emitted.minCorner[2]
                   /\ column.minCorner[3] = emitted.minCorner[3]

\* ---------------------------------------------------------------------
\* The batches of Put
\* ---------------------------------------------------------------------

\* Most spans in one POST /roi of the batching specification: two full
\* batches and one span more.
MaxPutSpans == 2 * BATCH_SIZE + 1

\* The span lists of that specification; the same span may be POSTed twice.
BatchSpanLists == ListsOver({<<0, 0, 0, 0>>, <<1, 0, 0, 1>>}, MaxPutSpans)

\* roi.go:397-401 without the commit of the last batch.
lastBatchNoCommit(spans, st, nOK) == st

\* roi.go:397-401: the commit of the batch that the loop left open.  st holds
\* the batches committed so far, the open batch and the error flag; a batch
\* is the list of the positions i of the spans that batch.Put was called for.
lastBatch(spans, st, nOK) ==
    IF Len(spans) % BATCH_SIZE # 0
    THEN IF Len(st.committed) < nOK
         THEN [st EXCEPT !.committed = Append(@, st.batch), !.batch = <<>>]
         ELSE [st EXCEPT !.err = TRUE]
    ELSE st

\* roi.go:377-396: the loop of Put from span i (0-based) on, as PutLoop, with
\* the batches as lists of puts; the first nOK commits succeed and the next
\* one fails.
RECURSIVE batches(_, _, _, _)
batches(spans, i, st, nOK) ==
    IF i >= Len(spans) THEN lastBatch(spans, st, nOK)
    ELSE LET batch == Append(st.batch, i)
         IN IF (i + 1) % BATCH_SIZE = 0
            THEN IF Len(st.committed) < nOK
                 THEN batches(spans, i + 1,
                              [st EXCEPT !.committed = Append(@, batch), !.batch = <<>>],
                              nOK)
                 ELSE [st EXCEPT !.batch = batch, !.err = TRUE]
            ELSE batches(spans, i + 1, [st EXCEPT !.batch = batch], nOK)

\* POST /roi of spans to version v of a new instance, as Post, with the
\* batches that the request made.
PostBatches(v, spans, nOK) ==
    /\ v \in versions
    /\ NumPosts = 0
    /\ nOK \in 0..NumCommits(Len(spans))
    /\ LET r == Put(store[v], MinZ, MaxZ, spans, nOK)
       IN /\ store' = [store EXCEPT ![v] = r.keys]
          /\ MinZ' = r.MinZ
          /\ MaxZ' = r.MaxZ
          /\ posts' = [posts EXCEPT ![v] = Append(@, [spans |-> spans, ok |-> ~r.err])]
          /\ resp' = [NoResp EXCEPT !.op = "POST roi", !.v = v, !.spans = spans,
                                    !.status = IF r.err THEN 400 ELSE 200]
    /\ call' = [fn |-> "Put", args |-> <<v, spans, nOK>>, done |-> TRUE,
                result |-> batches(spans, 0,
                                   [committed |-> <<>>, batch |-> <<>>, err |-> FALSE],
                                   nOK)]
    /\ UNCHANGED <<versions, locked, mutex, put,
                   readonly, uuids, repoOf, datas, http, manager, backend>>

NextBatches ==
    \E spans \in BatchSpanLists, nOK \in 0..(MaxPutSpans \div BATCH_SIZE + 1) :
        PostBatches(1, spans, nOK)

SpecBatches == Init /\ [][NextBatches]_vars

\* The number of committed batches that hold a put of span i.
NumBatchesWith(committed, i) ==
    Cardinality({b \in 1..Len(committed) : i \in Range(committed[b])})

\* C27: in a Put whose commits all succeed, every input span is put into
\* exactly one committed batch, once, for every input length including 0 and
\* the exact multiples of BATCH_SIZE; no batch holds more than BATCH_SIZE puts
\* and no batch that holds a put is left uncommitted.  The keys stored are
\* those of the committed batches.
C27_EverySpanInOneCommittedBatch ==
    (call.fn = "Put" /\ ~call.result.err) =>
        LET spans == call.args[2]
            committed == call.result.committed
        IN /\ resp.status = 200
           /\ \A i \in 0..(Len(spans) - 1) : NumBatchesWith(committed, i) = 1
           /\ \A b \in 1..Len(committed) :
                  /\ Len(committed[b]) <= BATCH_SIZE
                  /\ Len(committed[b]) >= 1
                  /\ Cardinality(Range(committed[b])) = Len(committed[b])
           /\ call.result.batch = <<>>
           /\ store[call.args[1]] =
                  {Bytes(IndexOfSpan(spans[i + 1])) :
                       i \in UNION {Range(committed[b]) : b \in 1..Len(committed)}}

\* A Put of 2 * BATCH_SIZE spans, an exact multiple, has been served without
\* error in two batches.
C27_Witness ==
    /\ call.fn = "Put"
    /\ ~call.result.err
    /\ Len(call.args[2]) = 2 * BATCH_SIZE
    /\ Len(call.result.committed) = 2

\* ---------------------------------------------------------------------
\* The exit paths of Put
\* ---------------------------------------------------------------------

\* roi.go:344-361: a Put that returns before ctx.Mutex(): no small data
\* store, a body that does not parse, or a store that cannot batch.
PutFail(p, v) ==
    /\ put[p].pc = "idle"
    /\ v \in versions
    /\ NumBegun < MaxPosts
    /\ put' = [put EXCEPT ![p] = [IdlePut EXCEPT !.pc = "failed", !.v = v, !.err = TRUE]]
    /\ UNCHANGED <<store, MinZ, MaxZ, versions, locked, posts, resp, mutex, serverVars>>

\* roi.go:810-813: ServeHTTP answers the error of such a Put.
PutReturnError(p) ==
    /\ put[p].pc = "failed"
    /\ posts' = [posts EXCEPT ![put[p].v] = Append(@, [spans |-> <<>>, ok |-> FALSE])]
    /\ resp' = [NoResp EXCEPT !.op = "POST roi", !.v = put[p].v, !.status = 400]
    /\ put' = [put EXCEPT ![p] = IdlePut]
    /\ UNCHANGED <<store, MinZ, MaxZ, versions, locked, mutex, serverVars>>

\* roi.go:367-372: the deferred function calls datastore.SaveRepoByVersionID,
\* whose error is only logged.
PutSave(p) ==
    /\ put[p].pc = "exit"
    /\ put' = [put EXCEPT ![p].saved = TRUE, ![p].pc = "unlock"]
    /\ UNCHANGED <<store, MinZ, MaxZ, versions, locked, posts, resp, mutex, serverVars>>

\* The return of a Put that leaves the mutex locked when a commit failed.
PutUnlockOnSuccessOnly(p) ==
    /\ put[p].pc = "unlock"
    /\ mutex' = IF put[p].err THEN mutex ELSE [mutex EXCEPT ![put[p].v] = 0]
    /\ posts' = [posts EXCEPT ![put[p].v] =
                    Append(@, [spans |-> put[p].spans, ok |-> ~put[p].err])]
    /\ resp' = [NoResp EXCEPT !.op = "POST roi", !.v = put[p].v, !.spans = put[p].spans,
                              !.status = IF put[p].err THEN 400 ELSE 200]
    /\ put' = [put EXCEPT ![p] = IdlePut]
    /\ UNCHANGED <<store, MinZ, MaxZ, versions, locked, serverVars>>

\* roi.go:368 and 810-815: the deferred putMutex.Unlock(), which runs when
\* the deferred function returns, then the response of ServeHTTP.
PutUnlock(p) ==
    /\ put[p].pc = "unlock"
    /\ mutex' = [mutex EXCEPT ![put[p].v] = 0]
    /\ posts' = [posts EXCEPT ![put[p].v] =
                    Append(@, [spans |-> put[p].spans, ok |-> ~put[p].err])]
    /\ resp' = [NoResp EXCEPT !.op = "POST roi", !.v = put[p].v, !.spans = put[p].spans,
                              !.status = IF put[p].err THEN 400 ELSE 200]
    /\ put' = [put EXCEPT ![p] = IdlePut]
    /\ UNCHANGED <<store, MinZ, MaxZ, versions, locked, serverVars>>

\* The bodies that parse: no span, one span, which the commit after the loop
\* writes, and a full batch of the same span, which the loop commits.
ExitSpanLists == {[i \in 1..k |-> <<0, 0, 0, 0>>] : k \in {0, 1, BATCH_SIZE}}

\* The steps of request p once it holds the mutex, and its return when it
\* failed before.
PutStep(p) ==
    \/ PutChkMin(p)
    \/ PutSetMin(p)
    \/ PutChkMax(p)
    \/ PutSetMax(p)
    \/ \E commitOK \in BOOLEAN : PutBatch(p, commitOK)
    \/ \E commitOK \in BOOLEAN : PutFinal(p, commitOK)
    \/ PutSave(p)
    \/ PutUnlock(p)
    \/ PutReturnError(p)

NextExit ==
    \/ \E p \in Procs, v \in Versions, spans \in ExitSpanLists : PutBegin(p, v, spans)
    \/ \E p \in Procs, v \in Versions : PutFail(p, v)
    \/ \E p \in Procs : PutLock(p)
    \/ \E p \in Procs : PutStep(p)

\* Every goroutine that serves a request goes on running, and sync.Mutex
\* hands the lock to a goroutine that keeps waiting for it.
SpecExit ==
    /\ Init
    /\ [][NextExit]_vars
    /\ \A p \in Procs : WF_vars(PutStep(p))
    /\ \A p \in Procs : SF_vars(PutLock(p))

\* Request p holds the mutex of a version.
Holds(p) == \E v \in Versions : mutex[v] = p

\* C28: a Put that has taken the mutex of its (instance, version) calls the
\* repo save hook and then releases the mutex on every exit path, a failed
\* batch commit included, so that a Put waiting for the same mutex goes on
\* in the end; a Put that fails on the parsing of the body or on a store
\* without batching never takes the mutex and writes no key.
C28_MutexReleasedOnEveryExit ==
    /\ [][\A p \in Procs :
            /\ (Holds(p) /\ ~Holds(p)') => put[p].saved
            /\ (put[p].pc # "idle" /\ put'[p].pc = "idle") => ~Holds(p)'
            /\ put'[p].pc = "failed" => ~Holds(p)'
            /\ (put[p].pc = "failed") # (put'[p].pc = "failed")
                   => (store' = store /\ mutex' = mutex)]_vars
    /\ \A p \in Procs : Holds(p) ~> (put[p].saved /\ Holds(p))
    /\ \A p \in Procs : Holds(p) ~> ~Holds(p)
    /\ \A p \in Procs : (put[p].pc = "lock") ~> (put[p].pc # "lock")

\* A Put whose commit failed has called the save hook and is about to
\* unlock, while another Put on the same version waits for the mutex.
C28_Witness ==
    \E p, q \in Procs :
        /\ put[p].pc = "unlock"
        /\ put[p].err
        /\ put[p].saved
        /\ mutex[put[p].v] = p
        /\ put[q].pc = "lock"
        /\ put[q].v = put[p].v

\* A Put that failed before the mutex is about to return.
C28_WitnessFailed == \E p \in Procs : put[p].pc = "failed"

\* ---------------------------------------------------------------------
\* The commands and verbs of the ROI handler
\* ---------------------------------------------------------------------

\* The (command, verb) pairs that the handler documents; help and info are
\* served for every verb.
SupportedCommands ==
    {<<"roi", "GET">>, <<"roi", "POST">>, <<"ptquery", "POST">>, <<"partition", "GET">>}
        \cup ({"help", "info"} \X Methods)

\* The request that http' describes was handed to Data.ServeHTTP with a
\* (command, verb) pair that is not supported.
UnsupportedServed(request) ==
    /\ "ServeHTTP" \in Range(request.ran)
    /\ \E keyword \in Keywords :
           /\ request.route = "/api/node/:uuid/:dataname/" \o keyword
           /\ <<keyword, request.method>> \notin SupportedCommands

\* C29: every request to the ROI data handler whose (command, verb) pair is
\* not GET roi, POST roi, POST ptquery, GET partition, help or info is
\* answered with a 400 error and changes no state; none gets a success
\* response.
C29_UnsupportedVerbIs400 ==
    [][UnsupportedServed(http') => (http'.status = 400 /\ UNCHANGED ServerState)]_vars

====
